---- MODULE Spec2Model ----
(***************************************************************************)
(* A model of @uttori/audio-midi: the AudioMIDI class (Standard MIDI File  *)
(* parser, generator and validator) over the DataBuffer byte cursor.       *)
(*                                                                         *)
(* Bytes are naturals 0..255, byte strings are sequences, offsets are      *)
(* 0-based as in the source (the byte at offset o is bytes[o + 1]).        *)
(***************************************************************************)
EXTENDS Integers, Sequences, FiniteSets, TLC

VARIABLES
  wire,          \* the tracks the input bytes were laid out from (history)
  options,       \* the options of the convertToMidi() call that built this.chunks
  thisData,          \* this.data: the bytes the instance was constructed over
  thisOffset,        \* this.offset: the read cursor
  thisFormat,        \* this.format
  thisTrackCount,    \* this.trackCount
  thisTimeDivision,  \* this.timeDivision
  thisChunks,        \* this.chunks
  thrown,        \* "Error" once a call on the instance has thrown
  issues,        \* what validate() last returned
  usedNotes,     \* what getUsedNotes() last returned
  saved,         \* the bytes of the DataBuffer saveToDataBuffer() returned
  savedHeader,        \* what decodeHeader() returned on the first 14 saved bytes
  reparsed,      \* the fields of new AudioMIDI(saved) after its parse()
  vlqValue,      \* the number handed to writeVariableLengthValue
  vlqBuffer,     \* the DataBuffer written to: [buffer, offset]
  vlqRead,       \* what readVariableLengthValues returned on those bytes
  eventIn,       \* the event handed to writeEvent
  eventWritten,  \* what writeEvent did: the DataBuffer and whether it threw
  eventRead,     \* the events the event loop of parse() read from those bytes
  noteValue,     \* the MIDI value handed to midiToNote
  noteName,      \* the string midiToNote returned
  noteBack,      \* what noteToMidi returned on that string
  trackData,     \* the bytes of a file of one track, for the event loop of parse()
  trackLoop,     \* the locals of parse() after the iterations of the loop so far
  trackDone      \* TRUE once `while (this.remainingBytes() > 0)` has been left

fileVars == <<wire, options, thisData, thisOffset, thisFormat, thisTrackCount, thisTimeDivision, thisChunks, thrown, issues,
              usedNotes, saved, savedHeader, reparsed>>

vlqVars == <<vlqValue, vlqBuffer, vlqRead>>

eventVars == <<eventIn, eventWritten, eventRead>>

noteVars == <<noteValue, noteName, noteBack>>

loopVars == <<trackData, trackLoop, trackDone>>

notFileVars == <<vlqVars, eventVars, noteVars, loopVars>>

notVlqVars == <<fileVars, eventVars, noteVars, loopVars>>

notEventVars == <<fileVars, vlqVars, noteVars, loopVars>>

notNoteVars == <<fileVars, vlqVars, eventVars, loopVars>>

notLoopVars == <<fileVars, vlqVars, eventVars, noteVars>>

vars == <<fileVars, vlqVars, eventVars, noteVars, loopVars>>

\* JavaScript `undefined` (a field that was never assigned).
Undefined == -1

\* No value yet (an operation that has not run).
None == [none |-> TRUE]

\* The value an operation returned.
Returned(v) == [value |-> v]

(***************************************************************************)
(* 32-bit integer arithmetic of the JavaScript bitwise operators.          *)
(***************************************************************************)

\* value << 7 : ToInt32(value), shifted, wrapped to a signed 32-bit integer.
Shl7(value) ==
  LET low == (value % 16777216) * 128
      bit == (value \div 16777216) % 2
  IN IF bit = 1 THEN (low - 1073741824) - 1073741824 ELSE low

(***************************************************************************)
(* JavaScript numbers that need not be whole.  A non-negative number (an   *)
(* IEEE 754 double) is held exactly as Limbs digits to the base Limb, the  *)
(* least significant first: FractionLimbs digits after the point, then     *)
(* the whole part.  Every arithmetic operator of the source gives the      *)
(* double nearest to the exact result, ties to the even mantissa.          *)
(***************************************************************************)

\* The significant binary digits of a double.
MantissaBits == 53

LimbBits == 20

Limb == 2^LimbBits

FractionLimbs == 4

Limbs == FractionLimbs + 1

\* A whole number n >= 0 as a number.
NumberOf(n) == <<0, 0, 0, 0, n>>

IsWhole(x) == \A i \in 1..FractionLimbs : x[i] = 0

\* Math.floor(x)
MathFloor(x) == x[Limbs]

\* Math.ceil(x)
MathCeil(x) == IF IsWhole(x) THEN x[Limbs] ELSE x[Limbs] + 1

\* Math.round(x): the nearest whole number, a half going up.
MathRound(x) == IF 2 * x[FractionLimbs] >= Limb THEN x[Limbs] + 1 ELSE x[Limbs]

RECURSIVE Carried(_, _, _)
\* The digits of a number whose digits u overflow or underflow the base.
Carried(u, i, carry) ==
  IF i = Limbs THEN <<u[i] + carry>>
  ELSE <<(u[i] + carry) % Limb>> \o Carried(u, i + 1, (u[i] + carry) \div Limb)

\* x + y, x - y for x >= y, and x * n for a whole n < 2^10, exactly.
Sum(x, y) == Carried([i \in 1..Limbs |-> x[i] + y[i]], 1, 0)

Difference(x, y) == Carried([i \in 1..Limbs |-> x[i] - y[i]], 1, 0)

Product(x, n) == Carried([i \in 1..Limbs |-> x[i] * n], 1, 0)

\* x < y
Less(x, y) == \E i \in 1..Limbs : x[i] < y[i] /\ \A j \in (i + 1)..Limbs : x[j] = y[j]

\* Binary places are counted from 0 at the least significant one.
LimbOf(place) == IF place >= LimbBits * FractionLimbs THEN Limbs ELSE place \div LimbBits + 1

Unit(place) == 2^(place - LimbBits * (LimbOf(place) - 1))

Bit(x, place) == (x[LimbOf(place)] \div Unit(place)) % 2

TopLimb(x) == CHOOSE j \in 1..Limbs : x[j] # 0 /\ \A k \in (j + 1)..Limbs : x[k] = 0

TopBit(limb) == CHOOSE k \in 0..29 : 2^k <= limb /\ limb < 2^(k + 1)

\* The place of the leading binary digit of x # 0.
Top(x) == LimbBits * (TopLimb(x) - 1) + TopBit(x[TopLimb(x)])

\* x without its binary digits at the places up to cut.
Kept(x, cut) ==
  [j \in 1..Limbs |->
     IF j < LimbOf(cut + 1) THEN 0
     ELSE IF j = LimbOf(cut + 1) THEN x[j] - (x[j] % Unit(cut + 1))
     ELSE x[j]]

Ulp(cut) == [j \in 1..Limbs |-> IF j = LimbOf(cut + 1) THEN Unit(cut + 1) ELSE 0]

\* Round to nearest, ties to even, at the place above cut; sticky tells
\* that the exact value has digits below the ones given.
RoundAt(x, cut, sticky) ==
  IF Bit(x, cut) = 1
     /\ (sticky \/ Bit(x, cut + 1) = 1 \/ x[LimbOf(cut)] % Unit(cut) # 0
         \/ \E j \in 1..(LimbOf(cut) - 1) : x[j] # 0)
    THEN Sum(Kept(x, cut), Ulp(cut))
    ELSE Carried(Kept(x, cut), 1, 0)

\* The double nearest to an exact value.
Round(x, sticky) ==
  IF \A i \in 1..Limbs : x[i] = 0 THEN x
  ELSE IF Top(x) - MantissaBits < 0 THEN x
  ELSE RoundAt(x, Top(x) - MantissaBits, sticky)

\* x + y
Plus(x, y) == Round(Sum(x, y), FALSE)

\* x - y, for x >= y
Minus(x, y) == CASE ~Less(x, y) -> Round(Difference(x, y), FALSE)

\* x * n, for a whole n < 2^10
Times(x, n) == Round(Product(x, n), FALSE)

RECURSIVE Remainder(_, _, _)
\* (r * Limb^k) % b
Remainder(r, b, k) == IF k = 0 THEN r ELSE Remainder((r * Limb) % b, b, k - 1)

RECURSIVE QuotientLimbs(_, _, _)
\* The first k digits of r / b after the point, for r < b < 2^11.
QuotientLimbs(r, b, k) ==
  IF k = 0 THEN <<>> ELSE QuotientLimbs((r * Limb) % b, b, k - 1) \o <<(r * Limb) \div b>>

\* a / b, for whole numbers a >= 0 and 0 < b < 2^11
Quotient(a, b) ==
  Round(QuotientLimbs(a % b, b, FractionLimbs) \o <<a \div b>>, Remainder(a % b, b, FractionLimbs) # 0)

(***************************************************************************)
(* DataBuffer (the byte cursor).                                           *)
(***************************************************************************)

\* new DataBuffer(): an empty buffer in writing mode.
NewDataBuffer == [buffer |-> <<>>, offset |-> 0]

\* The value a cell holds once commit() turns the buffer into a Uint8Array.
ToUint8(v) == IF v = Undefined THEN 0 ELSE v % 256

\* writeUInt8(data): store at the cursor, advance by one.
writeUInt8(db, v) ==
  [buffer |-> IF db.offset < Len(db.buffer)
                THEN [db.buffer EXCEPT ![db.offset + 1] = ToUint8(v)]
                ELSE Append(db.buffer, ToUint8(v)),
   offset |-> db.offset + 1]

RECURSIVE writeBytes(_, _)
\* writeBytes(data): every byte at the cursor, in order.
writeBytes(db, bytes) ==
  IF bytes = <<>> THEN db
  ELSE writeBytes(writeUInt8(db, Head(bytes)), Tail(bytes))

(***************************************************************************)
(* Variable length quantities.                                             *)
(***************************************************************************)

\* Variant: the do-while stops after the first 7-bit group.
vlqGroupsLsbOnly(value) == <<value % 128>>

RECURSIVE vlqGroups(_)
\* The do { buffer.push(value & 0x7F); value >>= 7 } while (value > 0) loop:
\* the 7-bit groups, least significant first.
vlqGroups(value) ==
  LET group == value % 128
      rest == value \div 128
  IN IF rest > 0 THEN <<group>> \o vlqGroups(rest) ELSE <<group>>

\* The bytes writeVariableLengthValue writes: the groups popped from the
\* end of the buffer, 0x80 set on all but the last one written.
vlqBytes(value) ==
  LET buffer == vlqGroups(value)
      n == Len(buffer)
  IN [i \in 1..n |-> IF i < n THEN buffer[n - i + 1] + 128 ELSE buffer[1]]

\* static writeVariableLengthValue(dataBuffer, value): value = Math.round(value)
\* first, value being a number.
writeVariableLengthValue(db, value) == writeBytes(db, vlqBytes(MathRound(value)))

RECURSIVE readVlqLoop(_, _, _)
\* The do-while of readVariableLengthValues from offset off with the value
\* accumulated so far; readUInt8 throws an UnderflowError at the end of data.
readVlqLoop(bytes, off, value) ==
  IF off >= Len(bytes)
    THEN [value |-> value, offset |-> off, err |-> TRUE]
    ELSE LET byte == bytes[off + 1]
             next == Shl7(value) + (byte % 128)
         IN IF byte >= 128 /\ Len(bytes) - (off + 1) > 0
              THEN readVlqLoop(bytes, off + 1, next)
              ELSE [value |-> next, offset |-> off + 1, err |-> FALSE]

\* readVariableLengthValues(): [value, offset after the read, err].
readVariableLengthValues(bytes, off) == readVlqLoop(bytes, off, 0)

(***************************************************************************)
(* Reading from a DataBuffer over fixed data. Every bounded read throws an *)
(* UnderflowError when it would pass the end of the data; a reader below   *)
(* reports that as err, and the offset it returns is then meaningless.     *)
(***************************************************************************)

remainingBytes(bytes, off) == Len(bytes) - off

\* data[offset] of readUInt8 (the caller checks for underflow).
byteAt(bytes, off) == IF off >= 0 /\ off < Len(bytes) THEN bytes[off + 1] ELSE Undefined

\* read(n): n bytes from off. new Uint8Array(n) throws for a negative n.
read(bytes, off, n) ==
  IF n < 0 \/ off + n > Len(bytes)
    THEN [data |-> <<>>, offset |-> off, err |-> TRUE]
    ELSE [data |-> SubSeq(bytes, off + 1, off + n), offset |-> off + n, err |-> FALSE]

\* readString(length): decodeString reads to the end of the data when the
\* length is 0 (`if (!length)`), and advance() accepts a negative length.
readString(bytes, off, length) ==
  LET n == IF length = 0 THEN remainingBytes(bytes, off) ELSE length
  IN IF n < 0
       THEN [data |-> <<>>, offset |-> off + n, err |-> FALSE]
       ELSE IF off + n > Len(bytes)
         THEN [data |-> <<>>, offset |-> off, err |-> TRUE]
         ELSE [data |-> SubSeq(bytes, off + 1, off + n), offset |-> off + n, err |-> FALSE]

\* readUInt16() / readUInt32(), big-endian, of bytes known to be there.
uint16At(bytes, off) == byteAt(bytes, off) * 256 + byteAt(bytes, off + 1)

uint32At(bytes, off) == uint16At(bytes, off) * 65536 + uint16At(bytes, off + 2)

\* The chunk type strings, as character codes.
MThd == <<77, 84, 104, 100>>

MTrk == <<77, 84, 114, 107>>

(***************************************************************************)
(* Header.                                                                 *)
(***************************************************************************)

\* static decodeHeader(chunk), chunk being the 14 bytes parse() read.
decodeHeader(chunk) ==
  LET timeDivisionByte1 == byteAt(chunk, 12)
      timeDivisionByte2 == byteAt(chunk, 13)
      smpte == timeDivisionByte1 >= 128
  IN [type |-> SubSeq(chunk, 1, 4),
      chunkLength |-> uint32At(chunk, 4),
      format |-> uint16At(chunk, 8),
      trackCount |-> uint16At(chunk, 10),
      framesPerSecond |-> IF smpte THEN timeDivisionByte1 - 128 ELSE Undefined,
      ticksPerFrame |-> IF smpte THEN timeDivisionByte2 ELSE Undefined,
      timeDivision |-> IF smpte THEN Undefined ELSE (timeDivisionByte1 * 256) + timeDivisionByte2]

(***************************************************************************)
(* Event values. An event is a record of the fields the source assigns;    *)
(* a field the source leaves unassigned is Undefined (label: "").          *)
(* event.data is a record of the source's fields; a bare number n is       *)
(* [number |-> n], a string is [string |-> its character codes], a         *)
(* Uint8Array is [bytes |-> ...], no data at all is NoData. A note number  *)
(* kept as a number n is [number |-> n], kept as the decimal string `${n}` *)
(* it is [string |-> n].                                                   *)
(***************************************************************************)

NoData == [undefined |-> TRUE]

NumberData(n) == [number |-> n]

StringData(s) == [string |-> s]

BytesData(b) == [bytes |-> b]

NoteNumber(n) == [number |-> n]

NoteString(n) == [string |-> n]

\* parseInt(note, 10) of a note kept either way.
parseInt(note) == IF "string" \in DOMAIN note THEN note.string ELSE note.number

\* data[name], Undefined when the object has no such field.
Field(data, name) == IF name \in DOMAIN data THEN data[name] ELSE Undefined

\* data[name] === undefined
Missing(data, name) == name \notin DOMAIN data

\* Math.round(a / b) for a >= 0, b > 0.
RoundDiv(a, b) == ((2 * a) + b) \div (2 * b)

\* Math.round(60000000 / 0) is Infinity.
Infinity == 2147483647

\* The key names of the Key Signature event, looked up by `${keySignature}`.
keys(keySignature) ==
  CASE keySignature = -7 -> "Cb"
    [] keySignature = -6 -> "Gb"
    [] keySignature = -5 -> "Db"
    [] keySignature = -4 -> "Ab"
    [] keySignature = -3 -> "Eb"
    [] keySignature = -2 -> "Bb"
    [] keySignature = -1 -> "F"
    [] keySignature = 0 -> "C"
    [] keySignature = 1 -> "G"
    [] keySignature = 2 -> "D"
    [] keySignature = 3 -> "A"
    [] keySignature = 4 -> "E"
    [] keySignature = 5 -> "B"
    [] keySignature = 6 -> "F#"
    [] keySignature = 7 -> "C#"
    [] OTHER -> "Unknown Key"

\* The labels of the text meta events 0x01..0x09.
textLabel(metaType) ==
  CASE metaType = 1 -> "Text Event"
    [] metaType = 2 -> "Copyright Notice"
    [] metaType = 3 -> "Sequence / Track Name"
    [] metaType = 4 -> "Instrument Name"
    [] metaType = 5 -> "Lyrics"
    [] metaType = 6 -> "Marker"
    [] metaType = 7 -> "Cue Point"
    [] metaType = 8 -> "Program Name"
    [] metaType = 9 -> "Device (Port) Name"

\* The labels of the M-Live Tag event.
tagLabel(tag) ==
  CASE tag = 1 -> "Genre"
    [] tag = 2 -> "Artist"
    [] tag = 3 -> "Composer"
    [] tag = 4 -> "Duration (seconds)"
    [] tag = 5 -> "BPM (Tempo)"
    [] OTHER -> "Unknown Tag: undefined"

\* What a decoder case yields: the data, the label, the offset after it.
Decoded(data, label, off, bytes) ==
  [data |-> data, label |-> label, offset |-> off, err |-> off > Len(bytes)]

Failed(off) == [data |-> NoData, label |-> "", offset |-> off, err |-> TRUE]

\* A case that is `event.data = this.read(length)` with a label.
decodeRaw(bytes, off, length, label) ==
  LET r == read(bytes, off, length)
  IN IF r.err THEN Failed(off) ELSE Decoded(BytesData(r.data), label, r.offset, bytes)

\* A case that reads a variable length value and then that many bytes.
decodeLengthPrefixed(bytes, off, label) ==
  LET length == readVariableLengthValues(bytes, off)
  IN IF length.err THEN Failed(off) ELSE decodeRaw(bytes, length.offset, length.value, label)

\* parse(), case 0xFF: the switch on event.metaType, from the offset that
\* follows the declared length. trackCount is this.trackCount.
decodeMeta(bytes, off, metaType, metaEventLength, trackCount) ==
  CASE metaType = 0 ->
         IF metaEventLength = 2
           THEN Decoded([sequenceNumber |-> uint16At(bytes, off), type |-> "Provided"],
                        "Sequence Number", off + 2, bytes)
           ELSE Decoded([sequenceNumber |-> trackCount, type |-> "Next Track Index"],
                        "Sequence Number", off + 1, bytes)
    [] metaType \in 1..9 ->
         LET r == readString(bytes, off, metaEventLength)
         IN IF r.err THEN Failed(off)
            ELSE Decoded(StringData(r.data), textLabel(metaType), r.offset, bytes)
    [] metaType = 32 -> Decoded(NumberData(byteAt(bytes, off)), "Channel Prefix", off + 1, bytes)
    [] metaType = 33 -> Decoded(NumberData(byteAt(bytes, off)), "MIDI Port", off + 1, bytes)
    [] metaType = 47 -> Decoded(StringData(<<>>), "End of Track", off, bytes)
    [] metaType = 75 ->
         IF off + 1 > Len(bytes) THEN Failed(off)
         ELSE LET tag == byteAt(bytes, off)
                  r == read(bytes, off + 1, metaEventLength)
              IN IF r.err THEN Failed(off)
                 ELSE Decoded([tag |-> tag, tagLabel |-> tagLabel(tag), tagValue |-> r.data],
                              "M-Live Tag", r.offset, bytes)
    [] metaType = 81 ->
         IF metaEventLength # 3 THEN decodeRaw(bytes, off, metaEventLength, "")
         ELSE LET byte1 == byteAt(bytes, off)
                  byte2 == byteAt(bytes, off + 1)
                  byte3 == byteAt(bytes, off + 2)
                  tempo == (byte1 * 65536) + (byte2 * 256) + byte3
              IN Decoded([byte1 |-> byte1, byte2 |-> byte2, byte3 |-> byte3, tempo |-> tempo,
                          bpm |-> IF tempo = 0 THEN Infinity ELSE RoundDiv(60000000, tempo)],
                         "Set Tempo", off + 3, bytes)
    [] metaType = 84 ->
         LET hourByte == byteAt(bytes, off)
             frameRateBits == (hourByte \div 32) % 4
         IN Decoded([hourByte |-> hourByte,
                     hour |-> hourByte % 32,
                     minute |-> byteAt(bytes, off + 1),
                     second |-> byteAt(bytes, off + 2),
                     frame |-> byteAt(bytes, off + 3),
                     subFrame |-> byteAt(bytes, off + 4),
                     frameRate |-> <<"24", "25", "29.97", "30">>[frameRateBits + 1]],
                    "SMPTE Offset", off + 5, bytes)
    [] metaType = 88 ->
         Decoded([numerator |-> byteAt(bytes, off),
                  denominator |-> byteAt(bytes, off + 1),
                  metronome |-> byteAt(bytes, off + 2),
                  thirtySecondNotes |-> byteAt(bytes, off + 3)],
                 "Time Signature", off + 4, bytes)
    [] metaType = 89 ->
         IF metaEventLength # 2 THEN decodeRaw(bytes, off, metaEventLength, "")
         ELSE LET keySignature == byteAt(bytes, off)
                  majorOrMinor == byteAt(bytes, off + 1)
              IN Decoded([keySignature |-> keySignature, majorOrMinor |-> majorOrMinor,
                          keyName |-> keys(keySignature),
                          mode |-> IF majorOrMinor = 0 THEN "Major" ELSE "Minor"],
                         "Key Signature", off + 2, bytes)
    [] metaType = 127 -> decodeRaw(bytes, off, metaEventLength, "Sequencer Specific")
    [] OTHER -> decodeRaw(bytes, off, metaEventLength, "")

RECURSIVE sysExLoop(_, _, _)
\* parse(), case 0xF0: the bytes up to the End of Exclusive marker 0xF7.
sysExLoop(bytes, off, data) ==
  IF off >= Len(bytes) THEN [data |-> data, offset |-> off, err |-> TRUE]
  ELSE IF bytes[off + 1] = 247 THEN [data |-> data, offset |-> off + 1, err |-> FALSE]
  ELSE sysExLoop(bytes, off + 1, Append(data, bytes[off + 1]))

\* The labels of the length-prefixed system messages 0xF3..0xFE.
systemLabel(eventType) ==
  CASE eventType = 243 -> "System Common Messages - Song Select"
    [] eventType = 244 -> "System Real Time Messages - Undefined 0xF4 (Reserved)"
    [] eventType = 245 -> "System Real Time Messages - Undefined 0xF5 (Reserved)"
    [] eventType = 246 -> "System Common Messages - Tune Request"
    [] eventType = 247 -> "System Common Messages - EOX"
    [] eventType = 248 -> "System Real Time Messages - MIDI Clock"
    [] eventType = 249 -> "System Real Time Messages - Undefined 0xF9 (Reserved)"
    [] eventType = 250 -> "System Real Time Messages - Start"
    [] eventType = 251 -> "System Real Time Messages - Continue"
    [] eventType = 252 -> "System Real Time Messages - Stop"
    [] eventType = 253 -> "System Real Time Messages - Undefined 0xFD (Reserved)"
    [] eventType = 254 -> "System Real Time Messages - Active Sensing"

\* parse(), cases 0xF0 and 0xF2..0xFE of the switch on eventType. These
\* cases assign neither event.type nor event.channel. The manufacturer
\* label table is not modelled.
decodeSystem(bytes, off, eventType) ==
  CASE eventType = 240 ->
         IF off + 1 > Len(bytes) THEN Failed(off)
         ELSE LET r == sysExLoop(bytes, off + 1, <<>>)
              IN IF r.err THEN Failed(off)
                 ELSE Decoded([manufacturerId |-> byteAt(bytes, off), data |-> r.data],
                              "", r.offset, bytes)
    [] eventType = 242 ->
         Decoded([msb |-> byteAt(bytes, off), lsb |-> byteAt(bytes, off + 1)],
                 "Song Position Pointer", off + 2, bytes)
    [] OTHER -> decodeLengthPrefixed(bytes, off, systemLabel(eventType))

\* parse(), default case of the switch on eventType: the inner switch on
\* (eventType >> 4) & 0x0F, but for Note Off and Note On, which parseEvent
\* decodes with the active notes. The controller label table is not
\* modelled. type is 0 when eventType is undefined.
decodeChannel(bytes, off, type) ==
  CASE type = 10 ->
         Decoded([note |-> NoteNumber(byteAt(bytes, off)), velocity |-> byteAt(bytes, off + 1)],
                 "Note Aftertouch", off + 2, bytes)
    [] type = 11 ->
         Decoded([controller |-> byteAt(bytes, off), value |-> byteAt(bytes, off + 1)],
                 "Controller", off + 2, bytes)
    [] type = 12 -> Decoded(NumberData(byteAt(bytes, off)), "Program Change", off + 1, bytes)
    [] type = 13 -> Decoded(NumberData(byteAt(bytes, off)), "Channel Aftertouch", off + 1, bytes)
    [] type = 14 ->
         LET firstByte == byteAt(bytes, off)
             secondByte == byteAt(bytes, off + 1)
         IN Decoded([pitchValue |-> (secondByte * 128) + firstByte,
                     firstByte |-> firstByte, secondByte |-> secondByte],
                    "Pitch Bend Event", off + 2, bytes)
    [] type = 15 -> decodeLengthPrefixed(bytes, off, "")
    [] OTHER -> Decoded(NoData, "", off, bytes)

\* Map.set(key, value) and Map.delete(key) on a map kept as a function.
MapSet(map, key, value) ==
  [k \in (DOMAIN map) \cup {key} |-> IF k = key THEN value ELSE map[k]]

MapDelete(map, key) == [k \in (DOMAIN map) \ {key} |-> map[k]]

EmptyMap == [k \in {} |-> 0]

\* An event object with every field the source may assign.
Event(deltaTime, type, channel, metaType, metaEventLength, label, data) ==
  [deltaTime |-> deltaTime, type |-> type, channel |-> channel, metaType |-> metaType,
   metaEventLength |-> metaEventLength, label |-> label, data |-> data]

(***************************************************************************)
(* parse(). The state of the loops is                                      *)
(*   [offset, chunks, events, activeNotes, currentTime, laststatusByte,    *)
(*    err]                                                                 *)
(* chunks being this.chunks, events the events of the track being read,    *)
(* and err an exception that ends parse(). activeNotes maps a note to      *)
(* [startTime, velocity, noteOnEvent], the event being referred to by the  *)
(* pair <<number of the track, index in its events>>.                      *)
(***************************************************************************)

\* track.events.push(event), the cursor left at off.
pushEvent(st, event, off, currentTime, laststatusByte) ==
  [st EXCEPT !.events = Append(@, event), !.offset = off,
             !.currentTime = currentTime, !.laststatusByte = laststatusByte]

\* noteOnData.noteOnEvent.data.length = noteLength
setNoteOnLength(st, ref, noteLength) ==
  LET patch(events) ==
        [events EXCEPT ![ref[2]].data =
           [note |-> @.note, velocity |-> @.velocity, length |-> noteLength]]
  IN IF ref[1] = Len(st.chunks) + 1
       THEN [st EXCEPT !.events = patch(@)]
       ELSE [st EXCEPT !.chunks[ref[1]].events = patch(@)]

\* Variant: a Note Off leaves the Note On event as it was emitted.
parseNoteOffNoPatch(bytes, st, off, deltaTime, eventType, currentTime) ==
  LET note == byteAt(bytes, off)
      velocity == byteAt(bytes, off + 1)
      event(length) == Event(deltaTime, eventType, eventType % 16, Undefined, Undefined, "Note Off",
                             [note |-> NoteString(note), velocity |-> velocity, length |-> length])
  IN IF off + 2 > Len(bytes) THEN [st EXCEPT !.err = TRUE]
     ELSE IF note \in DOMAIN st.activeNotes
       THEN LET noteLength == currentTime - st.activeNotes[note].startTime
            IN pushEvent([st EXCEPT !.activeNotes = MapDelete(@, note)],
                         event(noteLength), off + 2, currentTime, eventType)
       ELSE pushEvent(st, event(0), off + 2, currentTime, eventType)

\* parse(), case 0x8 (Note Off) of the inner switch.
parseNoteOff(bytes, st, off, deltaTime, eventType, currentTime) ==
  LET note == byteAt(bytes, off)
      velocity == byteAt(bytes, off + 1)
      event(length) == Event(deltaTime, eventType, eventType % 16, Undefined, Undefined, "Note Off",
                             [note |-> NoteString(note), velocity |-> velocity, length |-> length])
  IN IF off + 2 > Len(bytes) THEN [st EXCEPT !.err = TRUE]
     ELSE IF note \in DOMAIN st.activeNotes
       THEN LET noteOnData == st.activeNotes[note]
                noteLength == currentTime - noteOnData.startTime
                patched == setNoteOnLength(st, noteOnData.noteOnEvent, noteLength)
            IN pushEvent([patched EXCEPT !.activeNotes = MapDelete(@, note)],
                         event(noteLength), off + 2, currentTime, eventType)
       ELSE pushEvent(st, event(0), off + 2, currentTime, eventType)

\* parse(), case 0x9 (Note On) of the inner switch.
parseNoteOn(bytes, st, off, deltaTime, eventType, currentTime) ==
  LET note == byteAt(bytes, off)
      velocity == byteAt(bytes, off + 1)
      event == Event(deltaTime, eventType, eventType % 16, Undefined, Undefined, "Note On",
                     [note |-> NoteNumber(note), velocity |-> velocity])
      noteOnData == [startTime |-> currentTime, velocity |-> velocity,
                     noteOnEvent |-> <<Len(st.chunks) + 1, Len(st.events) + 1>>]
  IN IF off + 2 > Len(bytes) THEN [st EXCEPT !.err = TRUE]
     ELSE pushEvent([st EXCEPT !.activeNotes = MapSet(@, note, noteOnData)],
                    event, off + 2, currentTime, eventType)

\* parse(), case 0xFF (Meta Event) of the switch on eventType.
parseMeta(bytes, st, off, deltaTime, currentTime, trackCount) ==
  LET metaType == byteAt(bytes, off)
      metaEventLength == readVariableLengthValues(bytes, off + 1)
      d == decodeMeta(bytes, metaEventLength.offset, metaType, metaEventLength.value, trackCount)
  IN IF off + 1 > Len(bytes) \/ metaEventLength.err \/ d.err THEN [st EXCEPT !.err = TRUE]
     ELSE pushEvent(st, Event(deltaTime, 255, Undefined, metaType, metaEventLength.value,
                              d.label, d.data),
                    d.offset, currentTime, 255)

\* Variant: the byte after the delta time is the status byte whatever it is.
eventTypeAlwaysRead(first, laststatusByte) == first

\* eventType after `if (eventType >= 0x80) { laststatusByte = eventType }
\* else { eventType = laststatusByte; this.rewind(1) }`.
eventTypeOf(first, laststatusByte) == IF first >= 128 THEN first ELSE laststatusByte

\* One iteration of `while (this.remainingBytes() > 0)`: one event.
parseEvent(bytes, st, trackCount) ==
  LET deltaTime == readVariableLengthValues(bytes, st.offset)
      currentTime == st.currentTime + deltaTime.value
      first == byteAt(bytes, deltaTime.offset)
      isStatus == first >= 128
      \* a byte below 0x80 is not a status byte: rewind(1), running status
      eventType == eventTypeOf(first, st.laststatusByte)
      off == IF isStatus THEN deltaTime.offset + 1 ELSE deltaTime.offset
      fail == [st EXCEPT !.err = TRUE]
  IN IF deltaTime.err \/ deltaTime.offset >= Len(bytes) THEN fail
     ELSE CASE eventType = 240 \/ eventType \in 242..254 ->
                 LET d == decodeSystem(bytes, off, eventType)
                 IN IF d.err THEN fail
                    ELSE pushEvent(st, Event(deltaTime.value, Undefined, Undefined, Undefined,
                                             Undefined, d.label, d.data),
                                   d.offset, currentTime, eventType)
            [] eventType = 255 -> parseMeta(bytes, st, off, deltaTime.value, currentTime, trackCount)
            [] eventType = Undefined ->
                 \* no status byte yet: undefined & 0x0F and undefined >> 4 are 0
                 pushEvent(st, Event(deltaTime.value, Undefined, 0, Undefined, Undefined, "", NoData),
                           off, currentTime, eventType)
            [] eventType \div 16 = 8 ->
                 parseNoteOff(bytes, st, off, deltaTime.value, eventType, currentTime)
            [] eventType \div 16 = 9 ->
                 parseNoteOn(bytes, st, off, deltaTime.value, eventType, currentTime)
            [] OTHER ->
                 LET d == decodeChannel(bytes, off, eventType \div 16)
                 IN IF d.err THEN fail
                    ELSE pushEvent(st, Event(deltaTime.value, eventType, eventType % 16, Undefined,
                                             Undefined, d.label, d.data),
                                   d.offset, currentTime, eventType)

RECURSIVE parseEvents(_, _, _)
\* while (this.remainingBytes() > 0) { ... }
parseEvents(bytes, st, trackCount) ==
  IF st.err \/ remainingBytes(bytes, st.offset) <= 0 THEN st
  ELSE parseEvents(bytes, parseEvent(bytes, st, trackCount), trackCount)

RECURSIVE parseTracks(_, _, _, _)
RECURSIVE pushTrack(_, _, _, _, _, _)
\* for (let t = 0; t < header.trackCount; t++) { ... }
parseTracks(bytes, st, t, trackCount) ==
  IF st.err \/ t >= trackCount \/ remainingBytes(bytes, st.offset) = 0 THEN st
  ELSE IF st.offset + 8 > Len(bytes) THEN [st EXCEPT !.err = TRUE]
  ELSE LET type == SubSeq(bytes, st.offset + 1, st.offset + 4)
           chunkLength == uint32At(bytes, st.offset + 4)
       IN IF type # MTrk THEN [st EXCEPT !.offset = @ + 8]
          ELSE pushTrack(bytes, type, chunkLength,
                         parseEvents(bytes,
                                     [st EXCEPT !.offset = @ + 8, !.events = <<>>,
                                                !.laststatusByte = Undefined],
                                     trackCount),
                         t, trackCount)

\* this.chunks.push(track), once the event loop has ended in `done`, and the
\* next round of the track loop.
pushTrack(bytes, type, chunkLength, done, t, trackCount) ==
  IF done.err THEN done
  ELSE parseTracks(bytes,
                   [done EXCEPT !.chunks = Append(@, [type |-> type, chunkLength |-> chunkLength,
                                                      events |-> done.events]),
                                !.events = <<>>],
                   t + 1, trackCount)

\* The instance's fields once the track loop of parse() has ended in st.
parsed(header, st) ==
  [format |-> header.format, trackCount |-> header.trackCount,
   timeDivision |-> header.timeDivision, chunks |-> st.chunks,
   thrown |-> IF st.err THEN "Error" ELSE "none", offset |-> st.offset]

\* parse() on an instance over the data `bytes` with the cursor at 0 and the
\* fields in `this`: the instance's fields after the call, and whether it threw.
parse(this, bytes) ==
  IF Len(bytes) < 14 THEN [this EXCEPT !.thrown = "Error"]
  ELSE LET header == decodeHeader(SubSeq(bytes, 1, 14))
       IN parsed(header,
                 parseTracks(bytes,
                             [offset |-> 14, chunks |-> this.chunks, events |-> <<>>,
                              activeNotes |-> EmptyMap, currentTime |-> 0,
                              laststatusByte |-> Undefined, err |-> FALSE],
                             0, header.trackCount))

(***************************************************************************)
(* Writing. A writer yields [db, err]: the DataBuffer as it stands when    *)
(* the writer returns or throws, and whether it threw.                     *)
(***************************************************************************)

Written(db) == [db |-> db, err |-> FALSE]

Thrown(db) == [db |-> db, err |-> TRUE]

\* writeUInt16(data) / writeUInt32(data), big-endian; undefined & mask is 0.
writeUInt16(db, v) ==
  LET n == IF v = Undefined THEN 0 ELSE v
  IN writeBytes(db, <<(n \div 256) % 256, n % 256>>)

writeUInt32(db, v) ==
  writeBytes(db, <<(v \div 16777216) % 256, (v \div 65536) % 256, (v \div 256) % 256, v % 256>>)

\* type | (channel & 0x0F); undefined | x is x.
statusOr(type, channel) ==
  LET t == IF type = Undefined THEN 0 ELSE type
      bit(x, i) == (x \div (2 ^ i)) % 2
      low == (IF bit(t, 0) + bit(channel, 0) > 0 THEN 1 ELSE 0)
           + (IF bit(t, 1) + bit(channel, 1) > 0 THEN 2 ELSE 0)
           + (IF bit(t, 2) + bit(channel, 2) > 0 THEN 4 ELSE 0)
           + (IF bit(t, 3) + bit(channel, 3) > 0 THEN 8 ELSE 0)
  IN ((t \div 16) * 16) + low

\* !value for a number or undefined.
Falsy(v) == v = Undefined \/ v = 0

\* typeof data === 'object' (a plain object or a Uint8Array).
IsObject(data) == DOMAIN data \cap {"number", "string", "undefined"} = {}

\* !data for event.data.
FalsyData(data) ==
  \/ "undefined" \in DOMAIN data
  \/ ("number" \in DOMAIN data /\ data.number = 0)
  \/ ("string" \in DOMAIN data /\ data.string = <<>>)

RECURSIVE utf8(_)
\* new TextEncoder().encode(string) for a string of characters up to U+00FF.
utf8(string) ==
  IF string = <<>> THEN <<>>
  ELSE LET c == Head(string)
       IN (IF c < 128 THEN <<c>> ELSE <<192 + (c \div 64), 128 + (c % 64)>>) \o utf8(Tail(string))

\* Variant: an array is written whatever its elements are.
writeEventArrayUnchecked(db, array) == Written(writeBytes(db, array))

\* static writeEventData(dataBuffer, data) for an array of numbers.
writeEventArray(db, array) ==
  IF \E i \in DOMAIN array : array[i] = Undefined THEN Thrown(db)
  ELSE Written(writeBytes(db, array))

\* static writeEventData(dataBuffer, data) for event.data itself.
writeEventData(db, data) ==
  IF "bytes" \in DOMAIN data THEN Written(writeBytes(db, data.bytes))
  ELSE IF "string" \in DOMAIN data THEN Written(writeBytes(db, utf8(data.string)))
  ELSE Thrown(db)

\* writeEvent(), case 0xFF: the switch on metaType, after the meta type and
\* the declared length have been written.
writeMeta(db, metaType, data) ==
  CASE metaType = 0 ->
         LET sequenceNumber == Field(data, "sequenceNumber")
         IN IF Falsy(sequenceNumber) THEN Thrown(db)
            ELSE writeEventArray(db, <<sequenceNumber \div 256, sequenceNumber % 256>>)
    [] metaType \in 1..9 \/ metaType = 127 ->
         IF FalsyData(data) THEN Thrown(db) ELSE writeEventData(db, data)
    [] metaType \in {32, 33} ->
         IF FalsyData(data) THEN Thrown(db)
         ELSE Written(writeUInt8(db, Field(data, "number")))
    [] metaType = 47 -> Written(db)
    [] metaType = 81 ->
         IF FalsyData(data) THEN Thrown(db)
         ELSE writeEventArray(db, <<Field(data, "byte1"), Field(data, "byte2"), Field(data, "byte3")>>)
    [] metaType = 84 ->
         IF FalsyData(data) THEN Thrown(db)
         ELSE writeEventArray(db, <<Field(data, "hourByte"), Field(data, "minute"),
                                    Field(data, "second"), Field(data, "frame"),
                                    Field(data, "subFrame")>>)
    [] metaType = 88 ->
         LET numerator == Field(data, "numerator")
             denominator == Field(data, "denominator")
             metronome == Field(data, "metronome")
             thirtySecondNotes == Field(data, "thirtySecondNotes")
         IN IF Falsy(numerator) \/ Falsy(denominator) \/ Falsy(metronome) \/ Falsy(thirtySecondNotes)
              THEN Thrown(db)
              ELSE writeEventArray(db, <<numerator, denominator, metronome, thirtySecondNotes>>)
    [] metaType = 89 ->
         LET keySignature == Field(data, "keySignature")
             majorOrMinor == Field(data, "majorOrMinor")
         IN IF Falsy(keySignature) \/ Falsy(majorOrMinor) THEN Thrown(db)
            ELSE writeEventArray(db, <<keySignature, majorOrMinor>>)
    \* default: console.error(metaType.toString(16)) throws for an undefined metaType
    [] OTHER -> IF metaType = Undefined THEN Thrown(db) ELSE Written(db)

\* writeEvent(), the switch on type, after the delta time and the status
\* byte have been written.
writeEventBody(db, type, metaType, metaEventLength, data) ==
  CASE type \in {128, 144, 160} ->
         IF ~IsObject(data) \/ Missing(data, "note") \/ Missing(data, "velocity")
           THEN Thrown(db)
           ELSE writeEventArray(db, <<parseInt(data.note), data.velocity>>)
    [] type = 176 ->
         IF Falsy(Field(data, "controllerNumber")) \/ Falsy(Field(data, "value")) THEN Thrown(db)
         ELSE writeEventArray(db, <<data.controllerNumber, data.value>>)
    [] type = 192 ->
         IF Falsy(Field(data, "programNumber")) THEN Thrown(db)
         ELSE writeEventArray(db, <<data.programNumber>>)
    [] type = 208 ->
         IF Falsy(Field(data, "pressureAmount")) THEN Thrown(db)
         ELSE writeEventArray(db, <<data.pressureAmount>>)
    [] type = 224 ->
         IF Falsy(Field(data, "lsb")) \/ Falsy(Field(data, "msb")) THEN Thrown(db)
         ELSE writeEventArray(db, <<data.lsb, data.msb>>)
    [] type = 240 ->
         IF ~IsObject(data) \/ Falsy(Field(data, "manufacturerId")) \/ "data" \notin DOMAIN data
           THEN Thrown(db)
           ELSE LET body == writeEventArray(writeUInt8(db, data.manufacturerId), data.data)
                IN IF body.err THEN body ELSE Written(writeUInt8(body.db, 247))
    [] type = 243 ->
         IF Falsy(Field(data, "songNumber")) THEN Thrown(db)
         ELSE writeEventArray(db, <<data.songNumber>>)
    [] type \in {246, 247, 248, 250, 251, 252, 254} -> Written(db)
    [] type = 255 ->
         LET head == writeVariableLengthValue(writeUInt8(db, metaType),
                                              NumberOf(IF metaEventLength = Undefined THEN 0
                                                       ELSE metaEventLength))
         IN writeMeta(head, metaType, data)
    \* default: console.error(type.toString(16)) throws for an undefined type
    [] OTHER -> IF type = Undefined THEN Thrown(db) ELSE Written(db)

\* event.deltaTime as a number: the field deltaTime holds its whole part,
\* and the field deltaTimeFraction, which only an event with a deltaTime
\* that is not whole has, the digits after the point.
deltaTimeOf(event) ==
  IF "deltaTimeFraction" \in DOMAIN event THEN event.deltaTimeFraction \o <<event.deltaTime>>
  ELSE NumberOf(event.deltaTime)

\* The event with the number x for its deltaTime.
withDeltaTime(event, x) ==
  [name \in (DOMAIN event \ {"deltaTimeFraction"})
             \cup (IF IsWhole(x) THEN {} ELSE {"deltaTimeFraction"}) |->
     IF name = "deltaTime" THEN MathFloor(x)
     ELSE IF name = "deltaTimeFraction" THEN SubSeq(x, 1, FractionLimbs)
     ELSE event[name]]

\* writeEvent(dataBuffer, event)
writeEvent(db, event) ==
  LET statusByte == IF event.channel # Undefined THEN statusOr(event.type, event.channel % 16)
                    ELSE event.type
  IN IF Falsy(statusByte) \/ event.deltaTime = Undefined THEN Thrown(db)
     ELSE writeEventBody(writeUInt8(writeVariableLengthValue(db, deltaTimeOf(event)), statusByte),
                         event.type, event.metaType, event.metaEventLength, event.data)

RECURSIVE writeEvents(_, _)
RECURSIVE writeEventsAfter(_, _)
\* chunk.events.forEach((event) => this.writeEvent(dataBuffer, event))
writeEvents(db, events) ==
  IF events = <<>> THEN Written(db) ELSE writeEventsAfter(writeEvent(db, Head(events)), events)

\* The rest of the forEach once the first event of `events` is written as w:
\* a throw ends it.
writeEventsAfter(w, events) == IF w.err THEN w ELSE writeEvents(w.db, Tail(events))

\* Variant: the cursor is left after the length that was written back.
writeChunkLengthNoSeek(chunk, chunkLengthPosition, startPosition, body) ==
  LET chunkLength == body.db.offset - startPosition
  IN [db |-> writeUInt32([body.db EXCEPT !.offset = chunkLengthPosition], chunkLength),
      chunkLength |-> chunkLength, err |-> body.err]

\* writeChunk() once the events are written as `body`: the length is written
\* back at chunkLengthPosition.
writeChunkLength(chunk, chunkLengthPosition, startPosition, body) ==
  LET endPosition == body.db.offset
      chunkLength == endPosition - startPosition
      \* seek(chunkLengthPosition), writeUInt32(chunkLength), seek(endPosition)
      patched == writeUInt32([body.db EXCEPT !.offset = chunkLengthPosition], chunkLength)
  IN IF body.err
       THEN [db |-> body.db, chunkLength |-> chunk.chunkLength, err |-> TRUE]
       ELSE [db |-> [patched EXCEPT !.offset = endPosition],
             chunkLength |-> chunkLength, err |-> FALSE]

\* writeChunk(dataBuffer, chunk): [db, chunkLength, err], chunkLength being
\* chunk.chunkLength after the call.
writeChunk(db, chunk) ==
  IF chunk.type # MTrk THEN [db |-> db, chunkLength |-> chunk.chunkLength, err |-> FALSE]
  ELSE LET tagged == writeBytes(db, MTrk)
           chunkLengthPosition == tagged.offset
           reserved == writeUInt32(tagged, 0)
           startPosition == reserved.offset
       IN writeChunkLength(chunk, chunkLengthPosition, startPosition,
                           writeEvents(reserved, chunk.events))

RECURSIVE writeChunks(_, _, _)
RECURSIVE writeChunksAfter(_, _, _)
\* for (const chunk of this.chunks) this.writeChunk(dataBuffer, chunk), from
\* chunk number i: [db, chunks, err], chunks with the lengths written so far.
writeChunks(db, chunks, i) ==
  IF i > Len(chunks) THEN [db |-> db, chunks |-> chunks, err |-> FALSE]
  ELSE writeChunksAfter(writeChunk(db, chunks[i]), chunks, i)

\* The rest of the loop once chunk number i is written as w.
writeChunksAfter(w, chunks, i) ==
  IF w.err THEN [db |-> w.db, chunks |-> chunks, err |-> TRUE]
  ELSE writeChunks(w.db, [chunks EXCEPT ![i].chunkLength = w.chunkLength], i + 1)

\* The 14 header bytes saveToDataBuffer() writes.
writeHeader(db, this) ==
  writeUInt16(writeUInt16(writeUInt16(writeUInt32(writeBytes(db, MThd), 6),
                                      this.format),
                          this.trackCount),
              this.timeDivision)

\* saveToDataBuffer(): [db, chunks, err], db being the buffer returned (or
\* abandoned by a throw) and chunks this.chunks after the call.
saveToDataBuffer(this) == writeChunks(writeHeader(NewDataBuffer, this), this.chunks, 1)

\* addTrack(): this.chunks after the call.
addTrack(chunks) == Append(chunks, [type |-> MTrk, chunkLength |-> 0, events |-> <<>>])

\* addEvent(track, event) for a single event, track being this.chunks[t].
addEvent(chunks, t, event) == [chunks EXCEPT ![t].events = Append(@, event)]

(***************************************************************************)
(* getUsedNotes() and the note names.                                      *)
(***************************************************************************)

\* A string is the sequence of its characters.
noteNames ==
  <<<<"C">>, <<"C", "#">>, <<"D">>, <<"D", "#">>, <<"E">>, <<"F">>, <<"F", "#">>, <<"G">>,
    <<"G", "#">>, <<"A">>, <<"A", "#">>, <<"B">>>>

DecimalDigits == <<"0", "1", "2", "3", "4", "5", "6", "7", "8", "9">>

RECURSIVE decimal(_)
\* The decimal digits of n >= 0.
decimal(n) ==
  IF n < 10 THEN <<DecimalDigits[n + 1]>> ELSE Append(decimal(n \div 10), DecimalDigits[(n % 10) + 1])

\* Variant: the number is printed without its sign.
numberToStringUnsigned(n) == decimal(IF n < 0 THEN -n ELSE n)

\* `${n}` for an integer n.
numberToString(n) == IF n < 0 THEN <<"-">> \o decimal(-n) ELSE decimal(n)

\* static midiToNote(midiValue) at the default octave offset 2:
\* `${noteNames[noteIndex]}${octave}`.
midiToNote(midiValue) ==
  noteNames[(midiValue % 12) + 1] \o numberToString((midiValue \div 12) - 2)

\* The default noteMap of noteToMidi: noteMap[note], Undefined without such a key.
noteMap(note) ==
  CASE note = <<"C">> -> 0 [] note = <<"C", "#">> -> 1 [] note = <<"D">> -> 2
    [] note = <<"D", "#">> -> 3 [] note = <<"E">> -> 4 [] note = <<"E", "#">> -> 5
    [] note = <<"F">> -> 5 [] note = <<"F", "#">> -> 6 [] note = <<"G">> -> 7
    [] note = <<"G", "#">> -> 8 [] note = <<"A">> -> 9 [] note = <<"A", "#">> -> 10
    [] note = <<"B">> -> 11 [] note = <<"B", "#">> -> 0 [] OTHER -> Undefined

\* The value of a decimal digit.
digitValue(c) == CHOOSE d \in 0..9 : DecimalDigits[d + 1] = c

RECURSIVE digitsValue(_)
digitsValue(digits) ==
  IF digits = <<>> THEN 0 ELSE (10 * digitsValue(SubSeq(digits, 1, Len(digits) - 1))) + digitValue(digits[Len(digits)])

\* parseInt(string, 10) of a string that matches -?\d+
parseIntDecimal(string) ==
  IF Head(string) = "-" THEN 0 - digitsValue(Tail(string)) ELSE digitsValue(string)

\* noteString.match(/^([A-G]#?)(-?\d+)$/): the two groups, or None.
matchNote(noteString) ==
  LET noteLength == IF Len(noteString) >= 2 /\ noteString[2] = "#" THEN 2 ELSE 1
      octave == SubSeq(noteString, noteLength + 1, Len(noteString))
      digits == IF octave # <<>> /\ Head(octave) = "-" THEN Tail(octave) ELSE octave
  IN IF /\ noteString # <<>>
        /\ Head(noteString) \in {"A", "B", "C", "D", "E", "F", "G"}
        /\ digits # <<>>
        /\ \A i \in DOMAIN digits : \E d \in DOMAIN DecimalDigits : DecimalDigits[d] = digits[i]
     THEN [note |-> SubSeq(noteString, 1, noteLength), octave |-> octave]
     ELSE None

\* static noteToMidi(noteString) at the default octave offset 2 and the
\* default noteMap: what it returns, or None when it throws.
noteToMidi(noteString) ==
  LET match == matchNote(noteString)
      midiNumber == ((parseIntDecimal(match.octave) + 2) * 12) + noteMap(match.note)
  IN IF match = None THEN None
     ELSE IF midiNumber < 0 \/ midiNumber > 127 THEN None
     ELSE Returned(midiNumber)

\* The filter of getUsedNotes, `event?.type === 0.90`: the type is 9/10.
isUsedNoteEvent(event) == event.type # Undefined /\ event.type * 10 = 9

\* The note numbers getUsedNotes() adds to its set for one track.
usedNoteNumbers(track) ==
  {parseInt(track.events[i].data.note) :
     i \in {j \in DOMAIN track.events :
              /\ isUsedNoteEvent(track.events[j])
              /\ IsObject(track.events[j].data)
              /\ ~Missing(track.events[j].data, "velocity")
              /\ track.events[j].data.velocity > 0
              /\ "note" \in DOMAIN track.events[j].data}}

RECURSIVE sortNumbers(_)
\* [...set].sort((a, b) => a - b)
sortNumbers(set) ==
  IF set = {} THEN <<>>
  ELSE LET least == CHOOSE n \in set : \A m \in set : n <= m
       IN <<least>> \o sortNumbers(set \ {least})

\* getUsedNotes()
getUsedNotes(chunks) ==
  LET sortedNoteNumbers == sortNumbers(UNION {usedNoteNumbers(chunks[t]) : t \in DOMAIN chunks})
  IN [i \in DOMAIN sortedNoteNumbers |->
        [noteNumber |-> sortedNoteNumbers[i], noteString |-> midiToNote(sortedNoteNumbers[i])]]

(***************************************************************************)
(* validate(). An issue string is kept as a record of its kind and of the  *)
(* values the string names. The per-track state of the event loop is       *)
(*   [activeNotes, order, gotEndOfTrack, issues]                            *)
(* activeNotes being the Map from note number to count, and order its keys *)
(* in insertion order (the order the final loop reports them in).          *)
(***************************************************************************)

Issue(kind, track, event, value) == [kind |-> kind, track |-> track, event |-> event, value |-> value]

addIssue(v, issue) == [v EXCEPT !.issues = Append(@, issue)]

\* activeNotes.get(note) || 0
activeCount(v, note) == IF note \in DOMAIN v.activeNotes THEN v.activeNotes[note] ELSE 0

\* activeNotes.set(note, count)
setActiveCount(v, note, count) ==
  [v EXCEPT !.activeNotes = MapSet(@, note, count),
            !.order = IF note \in DOMAIN v.activeNotes THEN @ ELSE Append(@, note)]

\* Variant: a decrement at count 0 is passed over without an issue.
noteOffCountSilent(v, trackIndex, eventIndex, note) ==
  LET count == activeCount(v, note)
  IN IF count <= 0 THEN v ELSE setActiveCount(v, note, count - 1)

\* The decrement shared by Note Off and by Note On with velocity 0.
noteOffCount(v, trackIndex, eventIndex, note) ==
  LET count == activeCount(v, note)
  IN IF count <= 0
       THEN addIssue(v, Issue("Note Off of a note which was not active", trackIndex, eventIndex, note))
       ELSE setActiveCount(v, note, count - 1)

\* The expected metaEventLength of the meta events validate() checks.
metaLengthOk(metaType, metaEventLength) ==
  CASE metaType = 47 -> metaEventLength = 0
    [] metaType = 81 -> metaEventLength = 3
    [] metaType = 88 -> metaEventLength = 4
    [] metaType = 89 -> metaEventLength = 2
    [] metaType = 84 -> metaEventLength = 5
    [] metaType = 0 -> metaEventLength \in {0, 2}
    [] OTHER -> TRUE

\* Variant: every meta event counts as the End of Track.
sawEndOfTrackAnyMeta(v, event) == [v EXCEPT !.gotEndOfTrack = TRUE]

\* case 0x2F: gotEndOfTrack = true
sawEndOfTrack(v, event) ==
  IF event.metaType = 47 THEN [v EXCEPT !.gotEndOfTrack = TRUE] ELSE v

\* The body of track.events.forEach((event, eventIndex) => ...).
validateEvent(v, trackIndex, eventIndex, event) ==
  LET v1 == IF event.deltaTime # Undefined /\ event.deltaTime < 0
              THEN addIssue(v, Issue("negative deltaTime", trackIndex, eventIndex, event.deltaTime))
              ELSE v
  IN CASE event.type = 144 ->
            IF FalsyData(event.data) \/ Missing(event.data, "note")
                 \/ Missing(event.data, "velocity")
              THEN addIssue(v1, Issue("missing note/velocity data", trackIndex, eventIndex, 0))
              ELSE LET noteOnNumber == parseInt(event.data.note)
                   IN IF event.data.velocity > 0
                        THEN setActiveCount(v1, noteOnNumber, activeCount(v1, noteOnNumber) + 1)
                        ELSE noteOffCount(v1, trackIndex, eventIndex, noteOnNumber)
       [] event.type = 128 ->
            IF FalsyData(event.data) \/ Missing(event.data, "note")
              THEN addIssue(v1, Issue("missing note for Note Off", trackIndex, eventIndex, 0))
              ELSE noteOffCount(v1, trackIndex, eventIndex, parseInt(event.data.note))
       [] event.type = 255 ->
            IF event.metaType = Undefined
              THEN addIssue(v1, Issue("missing metaType", trackIndex, eventIndex, 0))
              ELSE LET v2 == sawEndOfTrack(v1, event)
                   IN IF metaLengthOk(event.metaType, event.metaEventLength) THEN v2
                      ELSE addIssue(v2, Issue("unexpected metaEventLength", trackIndex, eventIndex,
                                              event.metaType))
       [] OTHER -> v1

RECURSIVE validateEvents(_, _, _, _)
\* track.events.forEach(...) from event number i (eventIndex i - 1).
validateEvents(v, trackIndex, events, i) ==
  IF i > Len(events) THEN v
  ELSE validateEvents(validateEvent(v, trackIndex, i - 1, events[i]), trackIndex, events, i + 1)

RECURSIVE leftoverIssues(_, _, _)
\* for (const [noteNum, count] of activeNotes.entries()) if (count > 0) ...
leftoverIssues(v, trackIndex, i) ==
  IF i > Len(v.order) THEN <<>>
  ELSE (IF v.activeNotes[v.order[i]] > 0
          THEN <<[kind |-> "unmatched Note On", track |-> trackIndex,
                  event |-> v.activeNotes[v.order[i]], value |-> v.order[i]]>>
          ELSE <<>>)
       \o leftoverIssues(v, trackIndex, i + 1)

\* The validator's state at the end of the events of an MTrk track.
validatedTrack(track, trackIndex) ==
  validateEvents([activeNotes |-> EmptyMap, order |-> <<>>, gotEndOfTrack |-> FALSE,
                  issues |-> <<>>],
                 trackIndex, track.events, 1)

\* The body of this.chunks.forEach((track, trackIndex) => ...): the issues
\* of one chunk.
validateTrack(track, trackIndex) ==
  LET v == validatedTrack(track, trackIndex)
  IN (IF track.type # MThd /\ track.type # MTrk
        THEN <<Issue("unknown chunk type", trackIndex, 0, 0)>> ELSE <<>>)
     \o (IF track.type # MTrk THEN <<>>
         ELSE (IF track.chunkLength = 0 /\ Len(track.events) > 0
                 THEN <<Issue("chunkLength=0 but has events", trackIndex, 0, Len(track.events))>>
                 ELSE IF track.chunkLength > 0 /\ Len(track.events) = 0
                   THEN <<Issue("chunkLength but has 0 events", trackIndex, 0, track.chunkLength)>>
                   ELSE <<>>)
              \o v.issues
              \o (IF ~v.gotEndOfTrack
                    THEN <<Issue("missing End-of-Track", trackIndex, 0, 0)>> ELSE <<>>)
              \o leftoverIssues(v, trackIndex, 1))

RECURSIVE validateTracks(_, _)
validateTracks(chunks, i) ==
  IF i > Len(chunks) THEN <<>>
  ELSE validateTrack(chunks[i], i - 1) \o validateTracks(chunks, i + 1)

\* validate(): the issues, in the order they are pushed.
validate(this) ==
  (IF this.format < 0 \/ this.format > 2
     THEN <<Issue("Unsupported MIDI format", 0, 0, this.format)>> ELSE <<>>)
  \o (IF this.trackCount # Len(this.chunks)
        THEN <<Issue("Header trackCount", 0, Len(this.chunks), this.trackCount)>> ELSE <<>>)
  \o validateTracks(this.chunks, 1)

(***************************************************************************)
(* The event generators and convertToMidi().                               *)
(***************************************************************************)

\* static generateTempoEvent(bpm), bpm > 0
generateTempoEvent(bpm) ==
  LET tempo == RoundDiv(60000000, bpm)
  IN Event(0, 255, Undefined, 81, 3, "Set Tempo",
           [byte1 |-> (tempo \div 65536) % 256, byte2 |-> (tempo \div 256) % 256,
            byte3 |-> tempo % 256, tempo |-> tempo, bpm |-> bpm])

\* static generateMetaStringEvent(metaType, data), metaType in 0x01..0x09
generateMetaStringEvent(metaType, data) ==
  Event(0, 255, Undefined, metaType, Len(utf8(data)), textLabel(metaType), StringData(data))

\* static generateEndOfTrackEvent()
generateEndOfTrackEvent == Event(0, 255, Undefined, 47, 0, "End of Track", StringData(<<>>))

\* The Note On and Note Off events convertToMidi() pushes for a note when
\* currentTime * ppq is `time`; deltaTime holds the absolute time until the
\* track is converted to delta times.
noteEvents(note, time) ==
  <<withDeltaTime(Event(0, 144, 0, Undefined, Undefined, "Note On",
                        [note |-> NoteString(note.midiNote), velocity |-> note.velocity,
                         length |-> note.length]),
                  time),
    withDeltaTime(Event(0, 128, 0, Undefined, Undefined, "Note Off",
                        [note |-> NoteString(note.midiNote), velocity |-> 0,
                         length |-> note.length]),
                  Plus(time, NumberOf(MathCeil(note.length))))>>

RECURSIVE notesToEvents(_, _, _, _)
\* for (const note of notes) { ...; currentTime += note.ticks / ppq }
notesToEvents(notes, currentTime, ppq, skipNotes) ==
  IF notes = <<>> THEN <<>>
  ELSE (IF Head(notes).midiNote \notin skipNotes
          THEN noteEvents(Head(notes), Times(currentTime, ppq)) ELSE <<>>)
       \o notesToEvents(Tail(notes), Plus(currentTime, Quotient(Head(notes).ticks, ppq)),
                        ppq, skipNotes)

RECURSIVE sortByTime(_)
RECURSIVE sortedWith(_, _)
\* events.sort((a, b) => a.deltaTime - b.deltaTime): a stable sort.
sortByTime(events) ==
  IF events = <<>> THEN <<>>
  ELSE sortedWith(sortByTime(SubSeq(events, 1, Len(events) - 1)), events[Len(events)])

\* The sorted events with one more, which goes behind those not after it.
sortedWith(sorted, last) ==
  IF sorted = <<>> \/ ~Less(deltaTimeOf(last), deltaTimeOf(sorted[Len(sorted)]))
    THEN Append(sorted, last)
    ELSE Append(sortedWith(SubSeq(sorted, 1, Len(sorted) - 1), last), sorted[Len(sorted)])

RECURSIVE toDeltaTimes(_, _)
\* currentTrack.events.forEach((event) => { const deltaTime = event.deltaTime
\* - lastTime; event.deltaTime = deltaTime; lastTime += deltaTime })
toDeltaTimes(events, lastTime) ==
  IF events = <<>> THEN <<>>
  ELSE <<withDeltaTime(Head(events), Minus(deltaTimeOf(Head(events)), lastTime))>>
       \o toDeltaTimes(Tail(events), Plus(lastTime, Minus(deltaTimeOf(Head(events)), lastTime)))

\* The events of one track of convertToMidi(); metaStringEvents is a
\* sequence of <<metaType, string>> in the order of Object.entries.
convertTrack(ppq, bpm, track, skipNotes) ==
  toDeltaTimes(sortByTime((IF bpm # Undefined /\ bpm # 0 THEN <<generateTempoEvent(bpm)>> ELSE <<>>)
                          \o [i \in DOMAIN track.metaStringEvents |->
                                generateMetaStringEvent(track.metaStringEvents[i][1],
                                                        track.metaStringEvents[i][2])]
                          \o notesToEvents(track.notes, NumberOf(0), ppq, skipNotes)),
               NumberOf(0))

RECURSIVE convertTracks(_, _, _, _, _)
\* for (const track of tracks) { const currentTrack = midi.addTrack(); ... }
convertTracks(chunks, ppq, bpm, tracks, skipNotes) ==
  IF tracks = <<>> THEN chunks
  ELSE convertTracks([addTrack(chunks) EXCEPT
                        ![Len(chunks) + 1].events = convertTrack(ppq, bpm, Head(tracks), skipNotes)],
                     ppq, bpm, Tail(tracks), skipNotes)

\* new AudioMIDI(input, options): the fields of a new instance.
NewAudioMIDI(format, timeDivision) ==
  [format |-> format, trackCount |-> 0, timeDivision |-> timeDivision, chunks |-> <<>>,
   thrown |-> "none", offset |-> 0]

\* static convertToMidi({ ppq, bpm, tracks, skipNotes }): the new instance.
convertToMidi(ppq, bpm, tracks, skipNotes) ==
  [NewAudioMIDI(0, ppq) EXCEPT !.chunks = convertTracks(<<>>, ppq, bpm, tracks, skipNotes)]

(***************************************************************************)
(* The instance as a record, a fresh instance, and the idle values of the  *)
(* variables a specification does not use.                                 *)
(***************************************************************************)

This ==
  [format |-> thisFormat, trackCount |-> thisTrackCount, timeDivision |-> thisTimeDivision,
   chunks |-> thisChunks, thrown |-> thrown, offset |-> thisOffset]

\* new AudioMIDI(bytes, { format: f, timeDivision: td }) with nothing called.
Fresh(bytes, f, td) ==
  /\ thisData = bytes
  /\ options = None
  /\ thisOffset = 0
  /\ thisFormat = f
  /\ thisTrackCount = 0
  /\ thisTimeDivision = td
  /\ thisChunks = <<>>
  /\ thrown = "none"
  /\ issues = None
  /\ usedNotes = None
  /\ saved = None
  /\ savedHeader = None
  /\ reparsed = None

FileIdle == wire = <<>> /\ Fresh(<<>>, 0, 480)

VlqIdle == vlqValue = 0 /\ vlqBuffer = NewDataBuffer /\ vlqRead = None

EventIdle == eventIn = None /\ eventWritten = None /\ eventRead = None

NoteIdle == noteValue = 0 /\ noteName = <<>> /\ noteBack = None

LoopIdle == trackData = <<>> /\ trackLoop = None /\ trackDone = FALSE

(***************************************************************************)
(* Input files.  A wire event is a delta time, a status byte (Undefined    *)
(* when the event relies on running status) and its data bytes; a wire     *)
(* track is a sequence of wire events; a file is a header chunk followed   *)
(* by one MTrk chunk per wire track, laid out as the Standard MIDI File    *)
(* format prescribes.                                                      *)
(***************************************************************************)

MaxWireTracks == 2

MaxWireEvents == 3

WireEvent(deltaTime, status, bytes) == [deltaTime |-> deltaTime, status |-> status, bytes |-> bytes]

WireNoteOn == WireEvent(0, 144, <<60, 100>>)

WireNoteOff == WireEvent(240, 128, <<60, 0>>)

WireNoteOnChannel1 == WireEvent(0, 145, <<60, 100>>)

WireRunningNoteOn == WireEvent(0, Undefined, <<62, 100>>)

WireEndOfTrack == WireEvent(0, 255, <<47, 0>>)

WireEvents == {WireNoteOn, WireNoteOff, WireNoteOnChannel1, WireRunningNoteOn, WireEndOfTrack}

Uint16Bytes(v) == <<(v \div 256) % 256, v % 256>>

Uint32Bytes(v) == <<(v \div 16777216) % 256, (v \div 65536) % 256, (v \div 256) % 256, v % 256>>

\* A delta time below 2^14 as a variable-length quantity.
WireDelta(d) == IF d < 128 THEN <<d>> ELSE <<128 + (d \div 128), d % 128>>

WireEventBytes(e) ==
  WireDelta(e.deltaTime) \o (IF e.status = Undefined THEN <<>> ELSE <<e.status>>) \o e.bytes

RECURSIVE Flatten(_)
Flatten(seqs) == IF seqs = <<>> THEN <<>> ELSE Head(seqs) \o Flatten(Tail(seqs))

WireTrackBody(track) == Flatten([i \in DOMAIN track |-> WireEventBytes(track[i])])

WireTrackBytes(track) == MTrk \o Uint32Bytes(Len(WireTrackBody(track))) \o WireTrackBody(track)

WireHeader(f, ntrks, division) ==
  MThd \o Uint32Bytes(6) \o Uint16Bytes(f) \o Uint16Bytes(ntrks) \o Uint16Bytes(division)

WireFile(tracks) ==
  WireHeader(IF Len(tracks) > 1 THEN 1 ELSE 0, Len(tracks), 480)
  \o Flatten([i \in DOMAIN tracks |-> WireTrackBytes(tracks[i])])

SeqsUpTo(S, n) == UNION {[1..k -> S] : k \in 0..n}

RECURSIVE WireTrackLists(_, _)
\* Every list of n wire tracks holding at most `budget` events in all.
WireTrackLists(n, budget) ==
  IF n = 0 THEN {<<>>}
  ELSE UNION {{<<t>> \o rest : rest \in WireTrackLists(n - 1, budget - Len(t))} :
              t \in SeqsUpTo(WireEvents, budget)}

WireInputs == UNION {WireTrackLists(n, MaxWireEvents) : n \in 1..MaxWireTracks}

(***************************************************************************)
(* Inputs of the building calls.                                           *)
(***************************************************************************)

MaxTracks == 2

MaxEvents == 3

NoteOnEvent ==
  Event(0, 144, 0, Undefined, Undefined, "Note On", [note |-> NoteNumber(60), velocity |-> 100])

NoteOffEvent ==
  Event(240, 128, 0, Undefined, Undefined, "Note Off", [note |-> NoteNumber(60), velocity |-> 0])

TrackNameEvent == generateMetaStringEvent(3, <<65>>)

BuildEvents == {NoteOnEvent, NoteOffEvent, TrackNameEvent, generateEndOfTrackEvent}

RECURSIVE TotalEvents(_)
TotalEvents(tracks) ==
  IF tracks = <<>> THEN 0 ELSE Len(Head(tracks).events) + TotalEvents(Tail(tracks))

MaxConvertTracks == 2

ConvertNote(midiNote, length, ticks) ==
  [midiNote |-> midiNote, velocity |-> 100, length |-> length, ticks |-> ticks]

\* A note length of n ticks and a half.
AndAHalf(n) == <<0, 0, 0, Limb \div 2, n>>

ConvertTracks ==
  {[notes |-> <<>>, metaStringEvents |-> <<>>],
   [notes |-> <<ConvertNote(60, NumberOf(240), 480)>>, metaStringEvents |-> <<<<3, <<65>>>>>>],
   [notes |-> <<ConvertNote(60, NumberOf(600), 480), ConvertNote(62, NumberOf(240), 480)>>,
    metaStringEvents |-> <<>>],
   [notes |-> <<ConvertNote(62, AndAHalf(120), 0), ConvertNote(60, NumberOf(120), 480)>>,
    metaStringEvents |-> <<>>],
   [notes |-> <<ConvertNote(60, NumberOf(245), 245), ConvertNote(60, NumberOf(240), 240)>>,
    metaStringEvents |-> <<>>]}

(***************************************************************************)
(* Spec: one AudioMIDI instance, either constructed over the bytes of an   *)
(* input file and parsed, or constructed empty and built by addTrack() /   *)
(* addEvent() or by convertToMidi(); then validated, queried and saved,    *)
(* and the saved bytes parsed by a second instance.                        *)
(***************************************************************************)

Init ==
  /\ VlqIdle
  /\ EventIdle
  /\ NoteIdle
  /\ LoopIdle
  /\ \/ wire \in WireInputs /\ Fresh(WireFile(wire), 0, 480)
     \/ wire = <<>> /\ \E f \in {0, 1} : Fresh(<<>>, f, 480)

\* The instance's fields become those of `after`.
Becomes(after) ==
  /\ thisFormat' = after.format
  /\ thisTrackCount' = after.trackCount
  /\ thisTimeDivision' = after.timeDivision
  /\ thisChunks' = after.chunks
  /\ thisOffset' = after.offset
  /\ thrown' = after.thrown

\* What saveToDataBuffer() leaves when its writes ended as w.
Saves(w) ==
  /\ thisChunks' = w.chunks
  /\ thrown' = IF w.err THEN "Error" ELSE "none"
  /\ saved' = IF w.err THEN None ELSE Returned(w.db.buffer)

\* parse() on an instance constructed over input bytes.
Parse ==
  /\ thisData # <<>>
  /\ thisOffset = 0
  /\ thrown = "none"
  /\ saved = None
  /\ Becomes(parse(This, thisData))
  /\ issues' = None
  /\ usedNotes' = None
  /\ UNCHANGED <<wire, options, thisData, saved, savedHeader, reparsed, notFileVars>>

Building == thisData = <<>> /\ thrown = "none" /\ saved = None

\* addTrack()
AddTrack ==
  /\ Building
  /\ Len(thisChunks) < MaxTracks
  /\ thisChunks' = addTrack(thisChunks)
  /\ options' = None
  /\ issues' = None
  /\ usedNotes' = None
  /\ UNCHANGED <<wire, thisData, thisOffset, thisFormat, thisTrackCount, thisTimeDivision, thrown,
                 saved, savedHeader, reparsed, notFileVars>>

\* addEvent(track, event) on a track addTrack() returned.
AddEvent ==
  /\ Building
  /\ TotalEvents(thisChunks) < MaxEvents
  /\ \E t \in DOMAIN thisChunks, event \in BuildEvents : thisChunks' = addEvent(thisChunks, t, event)
  /\ options' = None
  /\ issues' = None
  /\ usedNotes' = None
  /\ UNCHANGED <<wire, thisData, thisOffset, thisFormat, thisTrackCount, thisTimeDivision, thrown,
                 saved, savedHeader, reparsed, notFileVars>>

\* AudioMIDI.convertToMidi({ ppq, bpm, tracks, skipNotes }): the instance is
\* the one the call returns.
ConvertToMidi ==
  /\ Building
  /\ thisChunks = <<>>
  /\ issues = None
  /\ usedNotes = None
  /\ \E bpm \in {Undefined, 120}, skipNotes \in {{}, {62}},
        tracks \in SeqsUpTo(ConvertTracks, MaxConvertTracks) :
       /\ tracks # <<>>
       /\ Becomes(convertToMidi(480, bpm, tracks, skipNotes))
       /\ options' = [ppq |-> 480, bpm |-> bpm, tracks |-> tracks, skipNotes |-> skipNotes]
  /\ UNCHANGED <<wire, thisData, issues, usedNotes, saved, savedHeader, reparsed, notFileVars>>

\* validate()
Validate ==
  /\ thrown = "none"
  /\ saved = None
  /\ issues' = Returned(validate(This))
  /\ UNCHANGED <<wire, options, thisData, thisOffset, thisFormat, thisTrackCount, thisTimeDivision,
                 thisChunks, thrown, usedNotes, saved, savedHeader, reparsed, notFileVars>>

\* getUsedNotes()
GetUsedNotes ==
  /\ thrown = "none"
  /\ saved = None
  /\ usedNotes' = Returned(getUsedNotes(thisChunks))
  /\ UNCHANGED <<wire, options, thisData, thisOffset, thisFormat, thisTrackCount, thisTimeDivision,
                 thisChunks, thrown, issues, saved, savedHeader, reparsed, notFileVars>>

\* saveToDataBuffer(): writeChunk() stores each chunkLength it wrote; a throw
\* of writeEvent() leaves the caller without a buffer.
SaveToDataBuffer ==
  /\ thrown = "none"
  /\ saved = None
  /\ Saves(saveToDataBuffer(This))
  /\ UNCHANGED <<wire, options, thisData, thisOffset, thisFormat, thisTrackCount, thisTimeDivision,
                 issues, usedNotes, savedHeader, reparsed, notFileVars>>

\* new AudioMIDI(saved).parse()
Reparse ==
  /\ saved # None
  /\ reparsed = None
  /\ reparsed' = parse(NewAudioMIDI(0, 480), saved.value)
  /\ UNCHANGED <<wire, options, thisData, thisOffset, thisFormat, thisTrackCount, thisTimeDivision,
                 thisChunks, thrown, issues, usedNotes, saved, savedHeader, notFileVars>>

Next ==
  \/ Parse
  \/ AddTrack
  \/ AddEvent
  \/ ConvertToMidi
  \/ Validate
  \/ GetUsedNotes
  \/ SaveToDataBuffer
  \/ Reparse

Spec == Init /\ [][Next]_vars

(***************************************************************************)
(* SpecHeader: an instance over the 14 bytes of a header chunk alone, laid *)
(* out from a header h = [format, trackCount, division]; it is parsed,     *)
(* saved, and the saved bytes are decoded by decodeHeader().               *)
(***************************************************************************)

Ppq(v) == [timeDivision |-> v, framesPerSecond |-> Undefined, ticksPerFrame |-> Undefined]

Smpte(framesPerSecond, ticksPerFrame) ==
  [timeDivision |-> Undefined, framesPerSecond |-> framesPerSecond, ticksPerFrame |-> ticksPerFrame]

HeaderFormats == {0, 1, 2}

HeaderTrackCounts == {0, 1, 255, 256, 65535}

HeaderDivisions ==
  {Ppq(v) : v \in {1, 96, 480, 32767}}
  \cup {Smpte(fps, tpf) : fps \in {0, 24, 104, 127}, tpf \in {0, 40, 255}}

Headers == [format : HeaderFormats, trackCount : HeaderTrackCounts, division : HeaderDivisions]

\* The two time-division bytes of the Standard MIDI File header.
DivisionBytes(division) ==
  IF division.timeDivision # Undefined THEN Uint16Bytes(division.timeDivision)
  ELSE <<128 + division.framesPerSecond, division.ticksPerFrame>>

HeaderBytes(h) ==
  MThd \o Uint32Bytes(6) \o Uint16Bytes(h.format) \o Uint16Bytes(h.trackCount)
  \o DivisionBytes(h.division)

\* Headers of one track that declare more than 6 bytes of data: the bytes
\* in excess follow the time division.
LongHeaders ==
  [format : {0, 1}, trackCount : {1}, division : {Ppq(96), Ppq(480)},
   excess : {<<0>>, <<0, 0>>, <<1, 2, 3>>}]

\* The file of a long header: the header chunk of length 6 + Len(h.excess),
\* then one track holding an End of Track.
LongHeaderFile(h) ==
  MThd \o Uint32Bytes(6 + Len(h.excess)) \o Uint16Bytes(h.format) \o Uint16Bytes(h.trackCount)
  \o DivisionBytes(h.division) \o h.excess \o MTrk \o Uint32Bytes(4) \o <<0, 255, 47, 0>>

\* The chunk types of the files of chunks: 'MTrk' and 'XFIH', a type other
\* than 'MTrk'.
ChunkTypes == {MTrk, <<88, 70, 73, 72>>}

\* The chunk bodies of the files of chunks: an End of Track alone, and a
\* Note On followed by an End of Track.
ChunkBodies == {<<0, 255, 47, 0>>, <<0, 144, 60, 100, 0, 255, 47, 0>>}

MaxFileChunks == 3

\* Files of one to MaxFileChunks chunks, one of them at least of a type
\* other than 'MTrk'; the header counts every chunk as a track.
ChunkFiles ==
  {h \in [format : {1}, trackCount : 1..MaxFileChunks, division : {Ppq(480)},
          chunks : UNION {[1..n -> [type : ChunkTypes, body : ChunkBodies]] :
                            n \in 1..MaxFileChunks}] :
     /\ h.trackCount = Len(h.chunks)
     /\ \E i \in DOMAIN h.chunks : h.chunks[i].type # MTrk}

RECURSIVE ChunkBytes(_)
\* The chunks on the wire: type, length of the body, body.
ChunkBytes(chunks) ==
  IF chunks = <<>> THEN <<>>
  ELSE Head(chunks).type \o Uint32Bytes(Len(Head(chunks).body)) \o Head(chunks).body
       \o ChunkBytes(Tail(chunks))

\* The file of header h with the chunks `chunks` after its header chunk.
ChunkFile(h, chunks) == HeaderBytes(h) \o ChunkBytes(chunks)

HeaderInit ==
  /\ VlqIdle
  /\ EventIdle
  /\ NoteIdle
  /\ LoopIdle
  /\ \/ wire \in Headers /\ Fresh(HeaderBytes(wire), 0, 480)
     \/ wire \in LongHeaders /\ Fresh(LongHeaderFile(wire), 0, 480)
     \/ wire \in ChunkFiles /\ Fresh(ChunkFile(wire, wire.chunks), 0, 480)

\* AudioMIDI.decodeHeader(saved.slice(0, 14))
DecodeHeader ==
  /\ saved # None
  /\ savedHeader = None
  /\ savedHeader' = decodeHeader(SubSeq(saved.value, 1, 14))
  /\ UNCHANGED <<wire, options, thisData, thisOffset, thisFormat, thisTrackCount, thisTimeDivision,
                 thisChunks, thrown, issues, usedNotes, saved, reparsed, notFileVars>>

HeaderNext ==
  \/ Parse
  \/ SaveToDataBuffer
  \/ DecodeHeader

SpecHeader == HeaderInit /\ [][HeaderNext]_vars

(***************************************************************************)
(* SpecVlq: a number is written as a variable length quantity into a new   *)
(* DataBuffer, possibly followed by one more byte, and read back from      *)
(* offset 0.                                                               *)
(***************************************************************************)

\* How far around each 7-bit group boundary the written numbers are taken.
VlqSpread == 3

VlqBoundaries == {0, 128, 16384, 2097152, 268435456}

VlqInputs ==
  {n \in UNION {{b + d, b - d - 1} : <<b, d>> \in VlqBoundaries \X (0..VlqSpread)} :
     n >= 0 /\ n < 268435456}

\* Bytes that may follow the quantity in the buffer.
VlqTails == {0, 5, 127, 128, 255}

VlqInit ==
  /\ FileIdle
  /\ EventIdle
  /\ NoteIdle
  /\ LoopIdle
  /\ vlqValue \in VlqInputs
  /\ vlqBuffer = NewDataBuffer
  /\ vlqRead = None

VlqWrite ==
  /\ vlqBuffer.offset = 0
  /\ vlqBuffer' = writeVariableLengthValue(vlqBuffer, NumberOf(vlqValue))
  /\ UNCHANGED <<vlqValue, vlqRead, notVlqVars>>

VlqWriteTail ==
  /\ vlqBuffer.offset > 0
  /\ vlqBuffer.offset = Len(vlqBytes(vlqValue))
  /\ vlqRead = None
  /\ \E b \in VlqTails : vlqBuffer' = writeUInt8(vlqBuffer, b)
  /\ UNCHANGED <<vlqValue, vlqRead, notVlqVars>>

VlqReadBack ==
  /\ vlqBuffer.offset > 0
  /\ vlqRead = None
  /\ vlqRead' = readVariableLengthValues(vlqBuffer.buffer, 0)
  /\ UNCHANGED <<vlqValue, vlqBuffer, notVlqVars>>

VlqNext == VlqWrite \/ VlqWriteTail \/ VlqReadBack

SpecVlq == VlqInit /\ [][VlqNext]_vars

(***************************************************************************)
(* C2                                                                      *)
(***************************************************************************)

\* The least number of 7-bit groups that hold n.
MinGroups(n) == IF n < 128 THEN 1 ELSE IF n < 16384 THEN 2 ELSE IF n < 2097152 THEN 3 ELSE 4

RECURSIVE GroupsValue(_)
\* The number a most-significant-first sequence of 7-bit groups denotes.
GroupsValue(bytes) ==
  IF bytes = <<>> THEN 0
  ELSE GroupsValue(SubSeq(bytes, 1, Len(bytes) - 1)) * 128 + (bytes[Len(bytes)] % 128)

\* C2: for every n in [0, 2^28) writeVariableLengthValue writes the minimum
\* number of bytes (1 to 4), most significant 7-bit group first, the high bit
\* set on every byte but the last (0 -> 00, 127 -> 7F, 128 -> 81 00,
\* 0x0FFFFFFF -> FF FF FF 7F), and readVariableLengthValues on those bytes
\* returns n and consumes exactly those bytes.
VlqRoundTrip ==
  LET w == vlqBytes(vlqValue)
      k == Len(w)
  IN /\ vlqBuffer.offset > 0 =>
          /\ SubSeq(vlqBuffer.buffer, 1, k) = w
          /\ k = MinGroups(vlqValue)
          /\ \A i \in 1..k : (w[i] >= 128) <=> (i < k)
          /\ GroupsValue(w) = vlqValue
          /\ vlqValue = 0 => w = <<0>>
          /\ vlqValue = 127 => w = <<127>>
          /\ vlqValue = 128 => w = <<129, 0>>
          /\ vlqValue = 268435455 => w = <<255, 255, 255, 127>>
     /\ vlqRead # None =>
          /\ ~vlqRead.err
          /\ vlqRead.value = vlqValue
          /\ vlqRead.offset = k

\* A four-byte quantity followed by a byte with the high bit set was read back.
VlqRoundTripWitness ==
  /\ vlqValue = 268435455
  /\ vlqBuffer.buffer = <<255, 255, 255, 127, 128>>
  /\ vlqRead # None
  /\ vlqRead.offset = 4


(***************************************************************************)
(* What the claims speak of: the events of a file by their status byte.    *)
(***************************************************************************)

\* The upper four bits of the status an event carries (channel messages keep
\* the channel in the lower four).
StatusKind(event) == IF event.type = Undefined THEN Undefined ELSE event.type \div 16

IsNoteOn(event) == StatusKind(event) = 9 /\ "note" \in DOMAIN event.data

IsNoteOff(event) == StatusKind(event) = 8 /\ "note" \in DOMAIN event.data

IsEndOfTrack(event) == event.type = 255 /\ event.metaType = 47

NoteOf(event) == parseInt(event.data.note)

RECURSIVE Ticks(_, _, _)
\* The ticks between event i and the later event j of a track.
Ticks(events, i, j) == IF j <= i THEN 0 ELSE events[j].deltaTime + Ticks(events, i, j - 1)

\* The Note On that is active for the Note Off at j: the latest Note On of
\* its note before j with no Note Off of that note in between; 0 if none.
ActiveNoteOn(events, j) ==
  LET opens == {i \in 1..(j - 1) :
                  /\ IsNoteOn(events[i])
                  /\ NoteOf(events[i]) = NoteOf(events[j])
                  /\ \A m \in (i + 1)..(j - 1) :
                       ~(IsNoteOff(events[m]) /\ NoteOf(events[m]) = NoteOf(events[j]))}
  IN IF opens = {} THEN 0 ELSE CHOOSE i \in opens : \A k \in opens : k <= i

Parsed == thisData # <<>> /\ thisOffset # 0 /\ thrown = "none"

(***************************************************************************)
(* C1                                                                      *)
(***************************************************************************)

\* The payload of an event, a note number read the same whether it is kept
\* as a number or as a string, and the Note On length field left out.
Payload(data) ==
  IF "note" \in DOMAIN data /\ "velocity" \in DOMAIN data
    THEN [note |-> parseInt(data.note), velocity |-> data.velocity]
    ELSE data

SameEvent(e, f) ==
  /\ e.type = f.type
  /\ e.channel = f.channel
  /\ e.deltaTime = f.deltaTime
  /\ e.metaType = f.metaType
  /\ e.metaEventLength = f.metaEventLength
  /\ Payload(e.data) = Payload(f.data)

SameTrack(a, b) ==
  /\ a.type = b.type
  /\ Len(a.events) = Len(b.events)
  /\ \A i \in DOMAIN a.events : SameEvent(a.events[i], b.events[i])

SameFile(a, b) ==
  /\ b.thrown = "none"
  /\ a.format = b.format
  /\ a.trackCount = b.trackCount
  /\ a.timeDivision = b.timeDivision
  /\ Len(a.chunks) = Len(b.chunks)
  /\ \A t \in DOMAIN a.chunks : SameTrack(a.chunks[t], b.chunks[t])

\* C1: whenever validate() returned no issue for the file, parsing the bytes
\* saveToDataBuffer() gave for it yields a file equal to it in format,
\* trackCount, timeDivision and, track by track, in its events (type,
\* channel, deltaTime, metaType, declared length, payload).
RoundTrip == (reparsed # None /\ issues = Returned(<<>>)) => SameFile(This, reparsed)

(***************************************************************************)
(* C3                                                                      *)
(***************************************************************************)

\* C3: decoding the 14 header bytes the encoder wrote for a header h gives
\* back the format, the trackCount and the time division of h, be it Ppq(v)
\* or Smpte(framesPerSecond, ticksPerFrame).
HeaderRoundTrip ==
  (savedHeader # None /\ thisOffset # 0) =>
     /\ savedHeader.format = wire.format
     /\ savedHeader.trackCount = wire.trackCount
     /\ savedHeader.timeDivision = wire.division.timeDivision
     /\ savedHeader.framesPerSecond = wire.division.framesPerSecond
     /\ savedHeader.ticksPerFrame = wire.division.ticksPerFrame

(***************************************************************************)
(* C4                                                                      *)
(***************************************************************************)

\* A wire track whose events each carry their status byte and whose last
\* event, and no other, is the End of Track.
WellFormed(track) ==
  /\ track # <<>>
  /\ \A i \in DOMAIN track :
       /\ track[i].status # Undefined
       /\ (track[i] = WireEndOfTrack) <=> (i = Len(track))

\* The event a wire event stands for.
IsWireEvent(event, w) ==
  /\ event.deltaTime = w.deltaTime
  /\ event.type = w.status
  /\ IF w.status = 255
       THEN event.metaType = w.bytes[1] /\ event.metaEventLength = w.bytes[2]
       ELSE Payload(event.data) = [note |-> w.bytes[1], velocity |-> w.bytes[2]]

\* C4: for a header declaring N >= 1 tracks followed by N well-formed MTrk
\* chunks, each ending with an End of Track, parse() yields exactly N tracks
\* in file order, each holding exactly the events of its own chunk in wire
\* order.
TracksSeparated ==
  (thisData # <<>> /\ thisOffset # 0 /\ \A t \in DOMAIN wire : WellFormed(wire[t])) =>
     /\ thrown = "none"
     /\ Len(thisChunks) = Len(wire)
     /\ \A t \in DOMAIN thisChunks :
          /\ Len(thisChunks[t].events) = Len(wire[t])
          /\ \A i \in DOMAIN thisChunks[t].events :
               IsWireEvent(thisChunks[t].events[i], wire[t][i])

(***************************************************************************)
(* C5                                                                      *)
(***************************************************************************)

\* C5: in every parsed track, a Note Off decoded while a Note On of its note
\* is active carries as length the ticks elapsed since that Note On, the
\* Note On carries the same length, and the note is no longer active after
\* it; a Note Off with no active Note On of its note carries length 0.
NoteLengths ==
  Parsed =>
    \A t \in DOMAIN thisChunks :
      LET events == thisChunks[t].events
      IN \A j \in DOMAIN events :
           IsNoteOff(events[j]) =>
             LET i == ActiveNoteOn(events, j)
             IN IF i = 0 THEN events[j].data.length = 0
                ELSE /\ events[j].data.length = Ticks(events, i, j)
                     /\ "length" \in DOMAIN events[i].data
                     /\ events[i].data.length = Ticks(events, i, j)

\* Note On 60 at tick 0, Note Off 60 at tick 240, and a second Note Off 60:
\* both events of the pair carry 240, the second Note Off carries 0.
NoteLengthsWitness ==
  /\ Parsed
  /\ wire = <<<<WireNoteOn, WireNoteOff, WireNoteOff>>>>
  /\ Len(thisChunks) = 1
  /\ thisChunks[1].events[1].data.length = 240
  /\ thisChunks[1].events[2].data.length = 240
  /\ thisChunks[1].events[3].data.length = 0

(***************************************************************************)
(* C6                                                                      *)
(***************************************************************************)

UsedNoteNumbers(tracks) ==
  UNION {{NoteOf(tracks[t].events[i]) :
            i \in {j \in DOMAIN tracks[t].events :
                     IsNoteOn(tracks[t].events[j]) /\ tracks[t].events[j].data.velocity > 0}} :
         t \in DOMAIN tracks}

\* C6: getUsedNotes() returns exactly the distinct note numbers of the Note
\* On events with velocity > 0 of all tracks, in ascending order without
\* duplicates, each with its name midiToNote(noteNumber).
UsedNotesListed ==
  usedNotes # None =>
    /\ {usedNotes.value[i].noteNumber : i \in DOMAIN usedNotes.value} = UsedNoteNumbers(thisChunks)
    /\ \A i, j \in DOMAIN usedNotes.value : i < j => usedNotes.value[i].noteNumber < usedNotes.value[j].noteNumber
    /\ \A i \in DOMAIN usedNotes.value : usedNotes.value[i].noteString = midiToNote(usedNotes.value[i].noteNumber)

(***************************************************************************)
(* C7                                                                      *)
(***************************************************************************)

RECURSIVE PairingCount(_, _, _)
\* The active count of note k after the first n events of a track: a Note
\* On with velocity > 0 adds one, a Note Off or a Note On with velocity 0
\* takes one off unless the count is 0.
PairingCount(events, k, n) ==
  IF n = 0 THEN 0
  ELSE LET before == PairingCount(events, k, n - 1)
           event == events[n]
       IN IF IsNoteOn(event) /\ NoteOf(event) = k /\ event.data.velocity > 0 THEN before + 1
          ELSE IF (IsNoteOn(event) \/ IsNoteOff(event)) /\ NoteOf(event) = k
            THEN (IF before = 0 THEN 0 ELSE before - 1)
          ELSE before

\* The events (by eventIndex) that try to take one off a count of 0.
InactiveOffs(events) ==
  {n - 1 : n \in {m \in DOMAIN events :
                    /\ IsNoteOff(events[m]) \/ (IsNoteOn(events[m]) /\ events[m].data.velocity = 0)
                    /\ PairingCount(events, NoteOf(events[m]), m - 1) = 0}}

\* The notes left with a positive count, each with its count.
Unmatched(events) ==
  {<<k, PairingCount(events, k, Len(events))>> :
     k \in {n \in 0..127 : PairingCount(events, n, Len(events)) > 0}}

IssuesOf(kind, trackIndex) ==
  {i \in DOMAIN issues.value : issues.value[i].kind = kind /\ issues.value[i].track = trackIndex}

\* C7: for every MTrk track validate() reports one issue per Note Off (or
\* Note On with velocity 0) that meets a count of 0, and one "unmatched Note
\* On" issue per note whose count is positive at the end of the track,
\* naming that note and count.
NotePairing ==
  issues # None =>
    \A t \in DOMAIN thisChunks :
      thisChunks[t].type = MTrk =>
        /\ {issues.value[i].event : i \in IssuesOf("Note Off of a note which was not active", t - 1)}
             = InactiveOffs(thisChunks[t].events)
        /\ {<<issues.value[i].value, issues.value[i].event>> : i \in IssuesOf("unmatched Note On", t - 1)}
             = Unmatched(thisChunks[t].events)

(***************************************************************************)
(* C8                                                                      *)
(***************************************************************************)

EndOfTrackCount(track) ==
  Cardinality({i \in DOMAIN track.events : IsEndOfTrack(track.events[i])})

\* As stated: an issue unless the track holds exactly one End of Track.
EndOfTrackExactlyOne ==
  issues # None =>
    \A t \in DOMAIN thisChunks :
      thisChunks[t].type = MTrk =>
        (IssuesOf("missing End-of-Track", t - 1) # {} <=> EndOfTrackCount(thisChunks[t]) # 1)

\* C8: validate() adds the missing End-of-Track issue for an MTrk track
\* exactly when the track holds no End of Track meta event; a track holding
\* one or more is not reported.
EndOfTrackMissing ==
  issues # None =>
    \A t \in DOMAIN thisChunks :
      thisChunks[t].type = MTrk =>
        (IssuesOf("missing End-of-Track", t - 1) # {} <=> EndOfTrackCount(thisChunks[t]) = 0)

\* validate() has run on a track holding two End of Track events and has
\* reported no End-of-Track issue for it.
EndOfTrackTwiceWitness ==
  /\ issues # None
  /\ \E t \in DOMAIN thisChunks :
       /\ thisChunks[t].type = MTrk
       /\ EndOfTrackCount(thisChunks[t]) >= 2
       /\ IssuesOf("missing End-of-Track", t - 1) = {}

(***************************************************************************)
(* C9                                                                      *)
(***************************************************************************)

\* The file's only track is an MTrk track without End of Track holding one
\* Note On of note 60 with velocity > 0 and no Note Off.
LoneNoteOn ==
  /\ Len(thisChunks) = 1
  /\ thisChunks[1].type = MTrk
  /\ Len(thisChunks[1].events) = 1
  /\ IsNoteOn(thisChunks[1].events[1])
  /\ NoteOf(thisChunks[1].events[1]) = 60
  /\ thisChunks[1].events[1].data.velocity > 0

\* C9: for such a file validate() returns exactly two issues, one about the
\* missing End of Track and one about the unmatched Note On of note 60.
LoneNoteOnTwoIssues ==
  (issues # None /\ LoneNoteOn) =>
    /\ Len(issues.value) = 2
    /\ \E i \in DOMAIN issues.value : issues.value[i].kind = "missing End-of-Track"
    /\ \E i \in DOMAIN issues.value : issues.value[i].kind = "unmatched Note On" /\ issues.value[i].value = 60

(***************************************************************************)
(* C10                                                                     *)
(***************************************************************************)

\* C10: in every file convertToMidi() returned, and after any sequence of
\* addTrack() calls, trackCount is the number of tracks of the file.
TrackCountIsTracks == (thisData = <<>> /\ wire = <<>>) => thisTrackCount = Len(thisChunks)

(***************************************************************************)
(* C11                                                                     *)
(***************************************************************************)

RECURSIVE AbsoluteTime(_, _)
\* The absolute time of event i: the exact sum of the deltaTimes up to and
\* including its own.
AbsoluteTime(events, i) ==
  IF i = 0 THEN NumberOf(0) ELSE Sum(AbsoluteTime(events, i - 1), deltaTimeOf(events[i]))

RECURSIVE TicksBefore(_, _)
\* S: the sum of the ticks fields of the notes before note k.
TicksBefore(notes, k) == IF k <= 1 THEN 0 ELSE notes[k - 1].ticks + TicksBefore(notes, k - 1)

\* Note k of `notes` has its Note On at tick S and, after it, its Note Off
\* at S + ceil(length).
NoteTimed(events, notes, k) ==
  \E i \in DOMAIN events, j \in DOMAIN events :
    /\ i < j
    /\ IsNoteOn(events[i])
    /\ NoteOf(events[i]) = notes[k].midiNote
    /\ AbsoluteTime(events, i) = NumberOf(TicksBefore(notes, k))
    /\ IsNoteOff(events[j])
    /\ NoteOf(events[j]) = notes[k].midiNote
    /\ AbsoluteTime(events, j) = NumberOf(TicksBefore(notes, k) + MathCeil(notes[k].length))

\* C11: in every track convertToMidi() produced, each note not in skipNotes
\* has a Note On at the tick S that is the sum of the ticks of the notes
\* before it and, later in the track, a Note Off at S + ceil(length); skipped
\* notes have no events; no deltaTime is negative.
ConvertTiming ==
  options # None =>
    \A t \in DOMAIN options.tracks :
      /\ \A i \in DOMAIN thisChunks[t].events : thisChunks[t].events[i].deltaTime >= 0
      /\ \A k \in DOMAIN options.tracks[t].notes :
           options.tracks[t].notes[k].midiNote \notin options.skipNotes
             => NoteTimed(thisChunks[t].events, options.tracks[t].notes, k)
      /\ Cardinality({i \in DOMAIN thisChunks[t].events :
                        IsNoteOn(thisChunks[t].events[i]) \/ IsNoteOff(thisChunks[t].events[i])})
           = 2 * Cardinality({k \in DOMAIN options.tracks[t].notes :
                                options.tracks[t].notes[k].midiNote \notin options.skipNotes})

(***************************************************************************)
(* One event through the encoder and back: writeEvent() on a fresh         *)
(* DataBuffer, then the event loop of parse() over the bytes written.      *)
(***************************************************************************)
\* The largest bpm handed to generateTempoEvent.
MaxBpm == 1000

\* The object `data` without the field `name`.
Without(data, name) == [k \in DOMAIN data \ {name} |-> data[k]]

\* Events that writeEvent() accepts, one of each kind with data bytes.
EventTemplates ==
  <<Event(0, 128, 0, Undefined, Undefined, "Note Off", [note |-> NoteNumber(60), velocity |-> 64]),
    Event(0, 144, 3, Undefined, Undefined, "Note On", [note |-> NoteNumber(60), velocity |-> 100]),
    Event(200, 160, 0, Undefined, Undefined, "Polyphonic Key Pressure",
          [note |-> NoteNumber(62), velocity |-> 5]),
    Event(0, 176, 0, Undefined, Undefined, "Control Change", [controllerNumber |-> 7, value |-> 100]),
    Event(0, 192, 3, Undefined, Undefined, "Program Change", [programNumber |-> 5]),
    Event(200, 208, 0, Undefined, Undefined, "Channel Pressure", [pressureAmount |-> 64]),
    Event(0, 224, 0, Undefined, Undefined, "Pitch Bend", [lsb |-> 1, msb |-> 64]),
    Event(0, 240, Undefined, Undefined, Undefined, "System Exclusive",
          [manufacturerId |-> 65, data |-> <<1, 2>>])>>

\* The names of the fields writeEvent() reads from the data of those events.
DataFields ==
  <<"note", "velocity", "controllerNumber", "value", "programNumber", "pressureAmount",
    "lsb", "msb", "manufacturerId", "data">>

\* The fields of e.data, and those of them that hold one number.
FieldsOf(e) == SelectSeq(DataFields, LAMBDA f : f \in DOMAIN e.data)

NumberFieldsOf(e) == SelectSeq(FieldsOf(e), LAMBDA f : f \notin {"note", "data"})

\* The event e and what is left of it when one thing is taken away: the
\* deltaTime, the type (with or without the channel), one field of the data
\* (dropped, or present and undefined), or one element of the data array.
Variants(e) ==
  <<e, [e EXCEPT !.deltaTime = Undefined], [e EXCEPT !.type = Undefined],
    [e EXCEPT !.type = Undefined, !.channel = Undefined], [e EXCEPT !.data = NoData]>>
  \o [i \in DOMAIN FieldsOf(e) |-> [e EXCEPT !.data = Without(@, FieldsOf(e)[i])]]
  \o [i \in DOMAIN NumberFieldsOf(e) |-> [e EXCEPT !.data = [@ EXCEPT ![NumberFieldsOf(e)[i]] = Undefined]]]
  \o (IF "data" \in DOMAIN e.data THEN <<[e EXCEPT !.data = [@ EXCEPT !.data = <<1, Undefined>>]]>>
      ELSE <<>>)

\* Events with every field writeEvent() reads present, one of them or more
\* holding the value 0.
ZeroValueEvents ==
  <<Event(0, 176, 0, Undefined, Undefined, "Control Change", [controllerNumber |-> 0, value |-> 64]),
    Event(0, 176, 0, Undefined, Undefined, "Control Change", [controllerNumber |-> 7, value |-> 0]),
    Event(0, 192, 0, Undefined, Undefined, "Program Change", [programNumber |-> 0]),
    Event(0, 208, 0, Undefined, Undefined, "Channel Pressure", [pressureAmount |-> 0]),
    Event(0, 224, 0, Undefined, Undefined, "Pitch Bend", [lsb |-> 0, msb |-> 64]),
    Event(0, 224, 0, Undefined, Undefined, "Pitch Bend", [lsb |-> 1, msb |-> 0]),
    Event(0, 240, Undefined, Undefined, Undefined, "System Exclusive",
          [manufacturerId |-> 0, data |-> <<1, 2>>]),
    Event(0, 255, Undefined, 0, 2, "Sequence Number", [sequenceNumber |-> 0]),
    Event(0, 255, Undefined, 0, 2, "Sequence Number", [sequenceNumber |-> 258]),
    Event(0, 255, Undefined, 32, 1, "MIDI Channel Prefix", NumberData(0)),
    Event(0, 255, Undefined, 32, 1, "MIDI Channel Prefix", NumberData(5)),
    Event(0, 255, Undefined, 33, 1, "MIDI Port", NumberData(0)),
    Event(0, 255, Undefined, 89, 2, "Key Signature", [keySignature |-> 0, majorOrMinor |-> 0]),
    Event(0, 255, Undefined, 89, 2, "Key Signature", [keySignature |-> 2, majorOrMinor |-> 1]),
    Event(0, 255, Undefined, 88, 4, "Time Signature",
          [numerator |-> 4, denominator |-> 2, metronome |-> 24, thirtySecondNotes |-> 8])>>

EncodeEvents ==
  Flatten([i \in DOMAIN EventTemplates |-> Variants(EventTemplates[i])]) \o ZeroValueEvents

EventInit ==
  /\ FileIdle
  /\ VlqIdle
  /\ NoteIdle
  /\ LoopIdle
  /\ \/ \E i \in DOMAIN EncodeEvents : eventIn = EncodeEvents[i]
     \/ \E bpm \in 1..MaxBpm : eventIn = generateTempoEvent(bpm)
  /\ eventWritten = None
  /\ eventRead = None

\* AudioMIDI.writeEvent(new DataBuffer(), event)
WriteEvent ==
  /\ eventWritten = None
  /\ eventWritten' = writeEvent(NewDataBuffer, eventIn)
  /\ UNCHANGED <<eventIn, eventRead, notEventVars>>

\* The event loop of parse() over the bytes written.
ReadEvent ==
  /\ eventWritten # None
  /\ ~eventWritten.err
  /\ eventRead = None
  /\ eventRead' = parseEvents(eventWritten.db.buffer,
                              [offset |-> 0, chunks |-> <<>>, events |-> <<>>,
                               activeNotes |-> EmptyMap, currentTime |-> 0,
                               laststatusByte |-> Undefined, err |-> FALSE],
                              1)
  /\ UNCHANGED <<eventIn, eventWritten, notEventVars>>

EventNext == WriteEvent \/ ReadEvent

SpecEvent == EventInit /\ [][EventNext]_vars

\* What the encoder requires of an event is not met.
Malformed(e) ==
  \/ e.type = Undefined
  \/ e.deltaTime = Undefined
  \/ e.type \in {128, 144, 160} /\ (Missing(e.data, "note") \/ Field(e.data, "velocity") = Undefined)
  \/ e.type = 176 /\ (Field(e.data, "controllerNumber") = Undefined \/ Field(e.data, "value") = Undefined)
  \/ e.type = 192 /\ Field(e.data, "programNumber") = Undefined
  \/ e.type = 208 /\ Field(e.data, "pressureAmount") = Undefined
  \/ e.type = 224 /\ (Field(e.data, "lsb") = Undefined \/ Field(e.data, "msb") = Undefined)
  \/ e.type = 240 /\ \/ Field(e.data, "manufacturerId") = Undefined
                     \/ Missing(e.data, "data")
                     \/ \E i \in DOMAIN e.data.data : e.data.data[i] = Undefined

\* C12: writeEvent throws, rather than logging and writing on, when the
\* event has no status byte, no deltaTime, is a note event without note or
\* velocity, a control change without controllerNumber or value, a program
\* change without programNumber, a channel pressure without pressureAmount,
\* a pitch bend without lsb or msb, a System Exclusive without manufacturerId
\* or data, or when the array of data bytes has an undefined element.
EncoderPreconditions ==
  (eventWritten # None /\ Malformed(eventIn)) => eventWritten.err

\* A System Exclusive whose data array has an undefined element was handed
\* to writeEvent, which threw.
EncoderRefusedArray ==
  /\ eventWritten # None
  /\ eventIn.type = 240
  /\ ~Missing(eventIn.data, "data")
  /\ \E i \in DOMAIN eventIn.data.data : eventIn.data.data[i] = Undefined
  /\ eventWritten.err

\* C14: for every integer bpm in 1..1000, generateTempoEvent(bpm) has
\* metaType 0x51, metaEventLength 3 and tempo = round(60000000 / bpm) with
\* round(60000000 / tempo) = bpm; written at delta 0 it is the bytes
\* 00 FF 51 03 and the three big-endian bytes of the tempo, and the event
\* read from those bytes is a Set Tempo with the same tempo and the same bpm.
TempoRoundTrip ==
  (eventIn # None /\ eventIn.metaType = 81) =>
     LET bpm == eventIn.data.bpm
         tempo == eventIn.data.tempo
     IN /\ eventIn.metaEventLength = 3
        /\ tempo = RoundDiv(60000000, bpm)
        /\ RoundDiv(60000000, tempo) = bpm
        /\ eventWritten # None =>
             /\ ~eventWritten.err
             /\ eventWritten.db.buffer =
                  <<0, 255, 81, 3, tempo \div 65536, (tempo \div 256) % 256, tempo % 256>>
        /\ eventRead # None =>
             /\ ~eventRead.err
             /\ Len(eventRead.events) = 1
             /\ eventRead.events[1].label = "Set Tempo"
             /\ eventRead.events[1].data.tempo = tempo
             /\ eventRead.events[1].data.bpm = bpm

(***************************************************************************)
(* A MIDI value to its note name and back.                                 *)
(***************************************************************************)
NoteInit ==
  /\ FileIdle
  /\ VlqIdle
  /\ EventIdle
  /\ LoopIdle
  /\ noteValue \in 0..127
  /\ noteName = <<>>
  /\ noteBack = None

\* AudioMIDI.midiToNote(noteValue)
MidiToNote ==
  /\ noteName = <<>>
  /\ noteName' = midiToNote(noteValue)
  /\ UNCHANGED <<noteValue, noteBack, notNoteVars>>

\* AudioMIDI.noteToMidi(noteName)
NoteToMidi ==
  /\ noteName # <<>>
  /\ noteBack = None
  /\ noteBack' = LET midiNumber == noteToMidi(noteName)
                 IN IF midiNumber = None THEN [thrown |-> "Error"] ELSE midiNumber
  /\ UNCHANGED <<noteValue, noteName, notNoteVars>>

NoteNext == MidiToNote \/ NoteToMidi

SpecNote == NoteInit /\ [][NoteNext]_vars

\* C13: for every MIDI value v in 0..127, noteToMidi(midiToNote(v)) is v at
\* the default octave offset 2; 0 is 'C-2', 12 is 'C-1', 60 is 'C3' and 72
\* is 'C4'.
NoteRoundTrip ==
  /\ noteBack # None => noteBack = Returned(noteValue)
  /\ noteName # <<>> =>
       /\ noteValue = 0 => noteName = <<"C", "-", "2">>
       /\ noteValue = 12 => noteName = <<"C", "-", "1">>
       /\ noteValue = 60 => noteName = <<"C", "3">>
       /\ noteValue = 72 => noteName = <<"C", "4">>

\* The name of a sharp note in a negative octave, 'A#-1', has been read back.
NoteRoundTripWitness ==
  /\ noteValue = 22
  /\ noteName = <<"A", "#", "-", "1">>
  /\ noteBack = Returned(22)

(***************************************************************************)
(* The event loop of parse(), one iteration at a time, over a file of one  *)
(* track.                                                                  *)
(***************************************************************************)
\* The longest track body made of every combination of LoopAlphabet.
MaxLoopBytes == 3

\* The most iterations of the loop that are followed.
MaxLoopEvents == 6

\* Delta times, data bytes, a Note On status, the System Exclusive status
\* and its end marker, the meta status and the meta types Text and End of Track.
LoopAlphabet == {0, 1, 47, 64, 144, 240, 247, 255}

\* Track bodies beyond those: running status, a System Exclusive without
\* its end marker, a Set Tempo cut short, a Note On with velocity 0, and a
\* Text event whose length has five bytes.
LoopExamples ==
  {<<0, 144, 60, 64, 0, 62, 64, 0, 64, 64>>,
   <<0, 240, 65, 1, 2>>,
   <<0, 255, 81, 3, 7, 161>>,
   <<0, 144, 60, 100, 120, 144, 60, 0>>,
   <<0, 144, 60, 100, 120, 128, 60, 0, 0, 144, 62, 100>>,
   <<0, 255, 1, 255, 255, 255, 255, 120>>}

\* The Key Signature events of the keys -7..7, flats as two's-complement
\* bytes, in the major and in the minor mode.
LoopKeySignatures == {<<0, 255, 89, 2, (k + 256) % 256, mode>> : k \in -7..7, mode \in {0, 1}}

\* The meta events of a fixed size, each with its standard length.
FixedMetaTypes == {32, 33, 81, 84, 88, 89}

StandardLength(metaType) ==
  CASE metaType \in {32, 33} -> 1 [] metaType = 81 -> 3 [] metaType = 84 -> 5
    [] metaType = 88 -> 4 [] metaType = 89 -> 2

\* The longest payload a meta event of the track bodies below declares.
MaxMetaLength == 6

\* A meta event of a fixed-size type that declares another length than the
\* standard one, with that many payload bytes, then an End of Track.
LoopMismatches ==
  {<<0, 255, metaType, length>> \o [i \in 1..length |-> i] \o <<0, 255, 47, 0>> :
     <<metaType, length>> \in {p \in FixedMetaTypes \X (0..MaxMetaLength) : p[2] # StandardLength(p[1])}}

\* An M-Live Tag of declared length 1 or more with that many payload bytes,
\* then an End of Track.
LoopTags ==
  {<<0, 255, 75, length>> \o [i \in 1..length |-> i] \o <<0, 255, 47, 0>> :
     length \in 1..MaxMetaLength}

\* System Exclusive events closed by the End of Exclusive byte 0xF7, alone
\* and before an End of Track.
LoopSystemExclusive ==
  {<<0, 240, 126, 247>>, <<0, 240, 65, 16, 66, 247, 0, 255, 47, 0>>}

\* A Note On after a delta time of five bytes, four of them with the
\* continuation bit set.
LoopLongQuantities ==
  {<<255, 255, 255, 255, 120, 144, 60, 64>>, <<129, 128, 128, 128, 0, 144, 60, 64>>}

LoopBodies ==
  SeqsUpTo(LoopAlphabet, MaxLoopBytes) \cup LoopExamples \cup LoopKeySignatures
  \cup LoopMismatches \cup LoopTags \cup LoopSystemExclusive \cup LoopLongQuantities

LoopInit ==
  /\ FileIdle
  /\ VlqIdle
  /\ EventIdle
  /\ NoteIdle
  /\ \E body \in LoopBodies :
       trackData = WireHeader(0, 1, 480) \o MTrk \o Uint32Bytes(Len(body)) \o body
  /\ trackLoop = [offset |-> 22, chunks |-> <<>>, events |-> <<>>, activeNotes |-> EmptyMap,
                  currentTime |-> 0, laststatusByte |-> Undefined, err |-> FALSE]
  /\ trackDone = FALSE

\* One iteration of `while (this.remainingBytes() > 0)`.
ParseEvent ==
  /\ ~trackDone
  /\ ~trackLoop.err
  /\ remainingBytes(trackData, trackLoop.offset) > 0
  /\ Len(trackLoop.events) < MaxLoopEvents
  /\ trackLoop' = parseEvent(trackData, trackLoop, 1)
  /\ UNCHANGED <<trackData, trackDone, notLoopVars>>

\* The loop is left: this.remainingBytes() > 0 is false.
ParseEventsEnd ==
  /\ ~trackDone
  /\ ~trackLoop.err
  /\ remainingBytes(trackData, trackLoop.offset) <= 0
  /\ trackDone' = TRUE
  /\ UNCHANGED <<trackData, trackLoop, notLoopVars>>

LoopNext == ParseEvent \/ ParseEventsEnd

SpecLoop == LoopInit /\ [][LoopNext]_vars

\* Where a variable-length quantity that starts at off ends: after its
\* first byte with the high bit clear, or at the end of the data.
VlqEnd(bytes, off) ==
  IF \E i \in off..(Len(bytes) - 1) : bytes[i + 1] < 128
    THEN 1 + CHOOSE i \in off..(Len(bytes) - 1) :
               bytes[i + 1] < 128 /\ \A j \in off..(i - 1) : bytes[j + 1] >= 128
    ELSE Len(bytes)

\* C15: parse ends on every finite input: an iteration of the event loop
\* of a track consumes at least one byte unless it throws, and the reader
\* of a variable-length quantity stops at the first byte with the high bit
\* clear or at the end of the data.
EventLoopConsumes ==
  /\ [](trackData # <<>> /\ ~trackLoop.err /\ remainingBytes(trackData, trackLoop.offset) > 0
          => readVariableLengthValues(trackData, trackLoop.offset).offset
               = VlqEnd(trackData, trackLoop.offset))
  /\ [][trackLoop' # trackLoop => (trackLoop'.err \/ trackLoop'.offset > trackLoop.offset)]_vars

\* The body of the track in trackData.
TrackBody == SubSeq(trackData, 23, Len(trackData))

\* The byte after the delta time that starts at the cursor of the loop.
AfterDelta == byteAt(trackData, readVariableLengthValues(trackData, trackLoop.offset).offset)

\* The event the iteration just made pushed.
Pushed == trackLoop'.events[Len(trackLoop'.events)]

\* C16: a byte of 0x80 or more after a delta time is the status byte of the
\* event and is recorded as the running status; a lower byte leaves the
\* recorded status of the track in use for the event and is read as its
\* first data byte.  The track 00 90 3C 40 00 3E 40 00 40 40 is read as
\* three Note On events on channel 0 with the notes 60, 62 and 64, velocity
\* 64 and delta time 0.
RunningStatus ==
  /\ [][(trackLoop' # trackLoop /\ ~trackLoop'.err) =>
          /\ AfterDelta >= 128 =>
               /\ trackLoop'.laststatusByte = AfterDelta
               /\ AfterDelta < 240 => Pushed.type = AfterDelta
          /\ (AfterDelta < 128 /\ trackLoop.laststatusByte # Undefined) =>
               /\ trackLoop'.laststatusByte = trackLoop.laststatusByte
               /\ trackLoop.laststatusByte < 240 => Pushed.type = trackLoop.laststatusByte
               /\ trackLoop.laststatusByte \in 128..159 =>
                    parseInt(Pushed.data.note) = AfterDelta]_vars
  /\ []((trackDone /\ TrackBody = <<0, 144, 60, 64, 0, 62, 64, 0, 64, 64>>) =>
          /\ Len(trackLoop.events) = 3
          /\ \A i \in 1..3 :
               /\ trackLoop.events[i].label = "Note On"
               /\ trackLoop.events[i].type = 144
               /\ trackLoop.events[i].channel = 0
               /\ trackLoop.events[i].deltaTime = 0
               /\ trackLoop.events[i].data.note = NoteNumber(58 + (2 * i))
               /\ trackLoop.events[i].data.velocity = 64)

\* The track of the three notes has been read to its end.
RunningStatusWitness ==
  /\ trackDone
  /\ TrackBody = <<0, 144, 60, 64, 0, 62, 64, 0, 64, 64>>
  /\ Len(trackLoop.events) = 3
  /\ trackLoop.events[3].data.note = NoteNumber(64)

\* The Note On event number i of the loop is the one activeNotes holds for
\* its note: no Note Off has matched it.
ActiveInLoop(i) ==
  LET note == trackLoop.events[i].data.note.number
  IN note \in DOMAIN trackLoop.activeNotes /\ trackLoop.activeNotes[note].noteOnEvent = <<1, i>>

\* C17: every Note On event the decoder emits has a numeric length, which
\* is 0 when the event is emitted and as long as no Note Off has matched it.
NoteOnLengthField ==
  (trackLoop # None /\ ~trackLoop.err) =>
     \A i \in DOMAIN trackLoop.events :
        trackLoop.events[i].label = "Note On" =>
           /\ Field(trackLoop.events[i].data, "length") # Undefined
           /\ ActiveInLoop(i) => trackLoop.events[i].data.length = 0

\* C18: a Note On with velocity 0 ends the active note of its number: when
\* the loop reads one while a Note On of the same note is active, the
\* length of that earlier Note On becomes the ticks between the two events,
\* as a Note Off would make it.
ZeroVelocityEndsNote ==
  [][(trackLoop' # trackLoop /\ ~trackLoop'.err /\ Pushed.label = "Note On"
        /\ Pushed.data.velocity = 0 /\ Pushed.data.note.number \in DOMAIN trackLoop.activeNotes) =>
       LET noteOnData == trackLoop.activeNotes[Pushed.data.note.number]
       IN Field(trackLoop'.events[noteOnData.noteOnEvent[2]].data, "length")
            = trackLoop'.currentTime - noteOnData.startTime]_vars

\* The bytes writeEvent() writes for the events of a chunk.
EventBytes(events) == writeEvents(NewDataBuffer, events).db.buffer

RECURSIVE ChunkStart(_, _)
\* Where chunk number i starts in the saved bytes: after the 14 header bytes
\* and, for each chunk before it, its 8 header bytes and its events.
ChunkStart(chunks, i) ==
  IF i = 1 THEN 14
  ELSE ChunkStart(chunks, i - 1) + 8 + Len(EventBytes(chunks[i - 1].events))

\* C19: once writeChunk() has written an MTrk chunk whose events all
\* encode, the four bytes after the 'MTrk' tag are the big-endian number of
\* bytes written for the events of that chunk, chunk.chunkLength is that
\* number and the cursor is at the end of the events; with several tracks
\* each length counts the events of its own chunk, and the chunks follow
\* each other in array order without overlap.
ChunkLengths ==
  saved # None =>
     LET w == saveToDataBuffer(This)
     IN /\ w.db.buffer = saved.value
        /\ w.db.offset = Len(saved.value)
        /\ Len(saved.value) = ChunkStart(thisChunks, Len(thisChunks) + 1)
        /\ \A i \in DOMAIN thisChunks :
             LET start == ChunkStart(thisChunks, i)
                 written == EventBytes(thisChunks[i].events)
             IN /\ SubSeq(saved.value, start + 1, start + 4) = MTrk
                /\ SubSeq(saved.value, start + 5, start + 8) = Uint32Bytes(Len(written))
                /\ SubSeq(saved.value, start + 9, start + 8 + Len(written)) = written
                /\ thisChunks[i].chunkLength = Len(written)

\* Two tracks with events, of different lengths, have been saved.
ChunkLengthsWitness ==
  /\ saved # None
  /\ Len(thisChunks) = 2
  /\ thisChunks[1].chunkLength > 0
  /\ thisChunks[2].chunkLength > thisChunks[1].chunkLength

\* C20: when the MThd chunk declares a length L above 6, parse() reads the
\* format, the trackCount and the time division from the first 6 bytes of
\* its data and skips the L - 6 bytes in excess: the header of the first
\* track is read at offset 8 + L, and the track is parsed.
ExcessHeaderSkipped ==
  (thisData # <<>> /\ thisOffset # 0 /\ "excess" \in DOMAIN wire) =>
     /\ thrown = "none"
     /\ thisFormat = wire.format
     /\ thisTrackCount = wire.trackCount
     /\ thisTimeDivision = wire.division.timeDivision
     /\ Len(thisChunks) = 1
     /\ thisChunks[1].type = MTrk
     /\ thisChunks[1].chunkLength = 4
     /\ Len(thisChunks[1].events) = 1
     /\ thisChunks[1].events[1].metaType = 47

RECURSIVE UnmatchedReported(_, _)
\* The counts of the "unmatched Note On" issues of a track, added up.
UnmatchedReported(list, trackIndex) ==
  IF list = <<>> THEN 0
  ELSE (IF Head(list).kind = "unmatched Note On" /\ Head(list).track = trackIndex
          THEN Head(list).event ELSE 0)
       + UnmatchedReported(Tail(list), trackIndex)

SignedByte(byte) == IF byte >= 128 THEN byte - 256 ELSE byte

\* C22: a Key Signature meta event of declared length 2 whose first byte
\* encodes the signed value k in -7..7 is decoded with keySignature k and
\* with the name of the key k, never 'Unknown Key'; its mode is 'Major' when
\* the second byte is 0 and 'Minor' otherwise.
KeySignatureDecoded ==
  (trackDone /\ TrackBody \in LoopKeySignatures) =>
     LET k == SignedByte(TrackBody[5])
         data == trackLoop.events[1].data
     IN /\ trackLoop.events[1].label = "Key Signature"
        /\ data.keySignature = k
        /\ data.keyName = keys(k)
        /\ data.keyName # "Unknown Key"
        /\ data.mode = (IF TrackBody[6] = 0 THEN "Major" ELSE "Minor")

\* The event at the cursor of the loop is a meta event of a fixed-size
\* type, with its status byte, that declares another length than the
\* standard one.
MismatchAtCursor ==
  /\ remainingBytes(trackData, trackLoop.offset) >= 4
  /\ byteAt(trackData, trackLoop.offset) < 128
  /\ byteAt(trackData, trackLoop.offset + 1) = 255
  /\ byteAt(trackData, trackLoop.offset + 2) \in FixedMetaTypes
  /\ byteAt(trackData, trackLoop.offset + 3) < 128
  /\ byteAt(trackData, trackLoop.offset + 3) # StandardLength(byteAt(trackData, trackLoop.offset + 2))

\* C23: a meta event of a fixed-size type (0x20, 0x21, 0x51, 0x54, 0x58,
\* 0x59) that declares another length than its standard one is read as that
\* many raw bytes: the next event is read from the byte after the declared
\* payload.
MetaLengthTolerated ==
  [][(trackLoop' # trackLoop /\ ~trackLoop'.err /\ MismatchAtCursor) =>
       LET length == byteAt(trackData, trackLoop.offset + 3)
       IN /\ trackLoop'.offset = trackLoop.offset + 4 + length
          /\ Pushed.data = BytesData(SubSeq(trackData, trackLoop.offset + 5,
                                            trackLoop.offset + 4 + length))]_vars

\* The event at the cursor of the loop is an M-Live Tag, with its status
\* byte, of declared length 1 or more.
TagAtCursor ==
  /\ remainingBytes(trackData, trackLoop.offset) >= 4
  /\ byteAt(trackData, trackLoop.offset) < 128
  /\ byteAt(trackData, trackLoop.offset + 1) = 255
  /\ byteAt(trackData, trackLoop.offset + 2) = 75
  /\ byteAt(trackData, trackLoop.offset + 3) \in 1..127

\* C24: an M-Live Tag of declared length L >= 1 consumes L payload bytes,
\* the first as the tag and the other L - 1 as tagValue: the event after it
\* is read from the byte that follows the L bytes.
TagConsumesDeclared ==
  [][(trackLoop' # trackLoop /\ ~trackLoop'.err /\ TagAtCursor) =>
       LET length == byteAt(trackData, trackLoop.offset + 3)
       IN /\ trackLoop'.offset = trackLoop.offset + 4 + length
          /\ Pushed.data.tag = byteAt(trackData, trackLoop.offset + 4)
          /\ Pushed.data.tagValue = SubSeq(trackData, trackLoop.offset + 6,
                                           trackLoop.offset + 4 + length)]_vars

\* The index of the first chunk of the file whose type is not 'MTrk'.
FirstOtherChunk(h) ==
  CHOOSE k \in DOMAIN h.chunks :
    /\ h.chunks[k].type # MTrk
    /\ \A i \in 1..(k - 1) : h.chunks[i].type = MTrk

\* The instance before parse() on a file of header h.
FreshThis(h) ==
  [format |-> 0, trackCount |-> 0, timeDivision |-> 480, chunks |-> <<>>, thrown |-> "none",
   offset |-> 0]

\* C25: when parse() meets a chunk whose type is not 'MTrk', it returns
\* without an error, trackCount is the header's value, and the tracks of the
\* file are the tracks of the chunks before that chunk, as parse() decodes
\* them from a file that ends before it: the chunk and the chunks after it
\* add no track and no event.
ChunkTypeStopsTracks ==
  (thisData # <<>> /\ thisOffset # 0 /\ "chunks" \in DOMAIN wire) =>
     LET k == FirstOtherChunk(wire)
         before == parse(FreshThis(wire), ChunkFile(wire, SubSeq(wire.chunks, 1, k - 1)))
     IN /\ thrown = "none"
        /\ thisTrackCount = wire.trackCount
        /\ Len(thisChunks) = k - 1
        /\ thisChunks = before.chunks

\* The status byte writeEvent() computes for an event.
StatusByteOf(event) ==
  IF event.channel # Undefined THEN statusOr(event.type, event.channel % 16) ELSE event.type

\* C26: the type of every event the event loop of parse() places in a track
\* is a number, the status byte in effect for the event (0x80 or more), be
\* the event a channel voice, a System Exclusive, a system common or
\* real-time, or a meta event; writeEvent() then finds a status byte for it.
ParsedTypeIsStatus ==
  [][(trackLoop' # trackLoop /\ ~trackLoop'.err) =>
        /\ Pushed.type = eventTypeOf(AfterDelta, trackLoop.laststatusByte)
        /\ Pushed.type >= 128
        /\ ~Falsy(StatusByteOf(Pushed))]_vars

\* A note event moved to channel 0; any other event as it is.
OnChannel0(event) ==
  IF IsNoteOn(event) \/ IsNoteOff(event)
    THEN [event EXCEPT !.type = (@ \div 16) * 16, !.channel = 0]
    ELSE event

\* The tracks with every note event moved to channel 0.
ChunksOnChannel0(chunks) ==
  [t \in DOMAIN chunks |->
     [chunks[t] EXCEPT !.events = [i \in DOMAIN @ |-> OnChannel0(@[i])]]]

IsPairingIssue(issue) ==
  issue.kind \in {"Note Off of a note which was not active", "unmatched Note On"}

\* C27: the Note On / Note Off pairing issues validate() returns for a
\* parsed file are the ones it returns for the same file with every note
\* event moved to channel 0: the channel of a note event changes nothing to
\* the report of an unmatched Note On or of a Note Off of an inactive note.
PairingOnEveryChannel ==
  (issues # None /\ Parsed) =>
     SelectSeq(issues.value, IsPairingIssue)
       = SelectSeq(validate([This EXCEPT !.chunks = ChunksOnChannel0(@)]), IsPairingIssue)

\* A field writeEvent() requires of the event is absent.
FieldAbsent(e) ==
  \/ Malformed(e)
  \/ e.type = 255 /\
       \/ e.metaType = Undefined
       \/ e.metaType = 0 /\ Field(e.data, "sequenceNumber") = Undefined
       \/ e.metaType \in {32, 33} /\ Missing(e.data, "number")
       \/ e.metaType = 81 /\ \E f \in {"byte1", "byte2", "byte3"} : Field(e.data, f) = Undefined
       \/ e.metaType = 88 /\ \E f \in {"numerator", "denominator", "metronome", "thirtySecondNotes"} :
                                Field(e.data, f) = Undefined
       \/ e.metaType = 89 /\ \E f \in {"keySignature", "majorOrMinor"} : Field(e.data, f) = Undefined

\* C28: writeEvent() throws only for an event with a required field absent:
\* an event whose required fields are all present is written without an
\* error, the value 0 included (controller or value 0, program 0, pressure
\* 0, lsb or msb 0, key signature 0 in mode 0, sequence number 0, channel
\* prefix or port 0, manufacturerId 0).
ThrowsOnlyWhenAbsent ==
  (eventWritten # None /\ eventWritten.err) => FieldAbsent(eventIn)

\* C29: when writeEvent() throws for an event, the data buffer holds no byte
\* of the event, be it of its delta time, its status byte or its meta
\* header, and the write cursor is where it was before the call.
WriteEventAtomic ==
  (eventWritten # None /\ eventWritten.err) => eventWritten.db = NewDataBuffer

\* The largest value of a variable length quantity of four bytes.
MaxQuantity == (2 ^ 28) - 1

\* C30: every value readVariableLengthValues() returns to the event loop,
\* the deltaTime of an event and the declared length of a meta event, is a
\* whole number from 0 to 2^28 - 1, whatever the bytes read, more than four
\* bytes with the continuation bit set included.
QuantitiesInRange ==
  [][(trackLoop' # trackLoop /\ ~trackLoop'.err) =>
        LET delta == readVariableLengthValues(trackData, trackLoop.offset).value
        IN /\ Pushed.deltaTime = delta
           /\ delta >= 0
           /\ delta <= MaxQuantity
           /\ Pushed.type = 255 =>
                /\ Pushed.metaEventLength >= 0
                /\ Pushed.metaEventLength <= MaxQuantity]_vars

====
